---------------------------- MODULE Spec2Model ----------------------------
(***************************************************************************)
(* go-backup-cleaner: a model of CleanBackup (cleaner.go), its scanner,    *)
(* deleter and empty-directory reaper, and of the pure calculators         *)
(* calculateBlockSize, calculateTargetSize, calculateThreshold and         *)
(* calculateThresholdForMaxSize.                                           *)
(*                                                                         *)
(* Time is counted in seconds since Go's zero time.Time; sizes are bytes.  *)
(* Optional configuration values (Go pointers) are records [set, v].       *)
(***************************************************************************)
EXTENDS Integers, Sequences, FiniteSets, TLC

VARIABLES
    config,      \* CleaningConfig (the fields the engine reads)
    provider,    \* what DiskInfoProvider answers: usage and block size
    faults,      \* which filesystem calls fail (permissions) in this tree
    modTime,     \* modification time of every regular file
    size,        \* logical size of every regular file
    tree,        \* the paths that existed when CleanBackup was called
    present,     \* the paths that currently exist
    pc,          \* position of CleanBackup: start, scan, delete, reap, done
    targetSize,  \* bytes to free, -1 in the MaxSize-without-usage mode
    blockSize,   \* block size reported by the provider
    taskChan,    \* the walker's task channel (scan or delete phase)
    taskWg,      \* the walker's outstanding-task counter
    firstErr,    \* first error collected from the phase's error channel
    timeSlots,   \* scanner.timeSlots: slot time -> timeSlot
    slots,       \* getTimeSlots(): the slots sorted oldest first
    threshold,   \* deletion threshold
    estimate,    \* estimated files and size given to OnDeleteStart
    deleter,     \* deleter counters and the deleted-directory set
    reapLeft,    \* directories the reaper still has to visit
    deletedDirs, \* directories removed by the reaper
    cb,          \* callbacks invoked so far, in order
    report,      \* the CleaningReport returned
    err,         \* the error returned ("" is nil)
    workerCount, \* number of worker goroutines of the scanner or deleter
    workers,     \* the worker goroutines: position and processPath frames
    closer,      \* the goroutine that closes taskChan after taskWg.Wait()
    errChan,     \* the phase's error channel
    visits,      \* how many times processPath was entered for each path
    external,    \* paths another process removed while the phase ran
    call         \* a calculator call on its own: arguments and results

vars == <<config, provider, faults, modTime, size, tree, present, pc, targetSize,
          blockSize, taskChan, taskWg, firstErr, timeSlots, slots, threshold,
          estimate, deleter, reapLeft, deletedDirs, cb, report, err,
          workerCount, workers, closer, errChan, visits, external, call>>

\* the state of the worker goroutines of a phase
walkVars == <<workerCount, workers, closer, errChan, visits, external, call>>

-----------------------------------------------------------------------------
(* Program constants *)

Second == 1
Hour == 3600
DefaultTimeWindow == 300
QueueCap == 100
DefaultMaxConcurrency == 4
ZeroTime == 0

\* runtime.NumCPU() of the machine
NumCPU == 8

\* time.Now() as read by calculateThresholdForMaxSize
Now == 20000

\* width of the signed integers of calculateBlockSize (64 in Go, where + and
\* * wrap around silently); the sizes of the model stay far below it
IntBits == 6
MaxInt == 2 ^ (IntBits - 1) - 1
MinInt == -(2 ^ (IntBits - 1))

\* a result of + or * as a two's complement integer of IntBits bits
wrap(x) == ((x - MinInt) % (2 ^ IntBits)) + MinInt

\* Go's integer division, which truncates toward zero (b > 0)
quot(a, b) == IF a >= 0 THEN a \div b ELSE -((-a) \div b)

None == [set |-> FALSE, v |-> 0]
Some(x) == [set |-> TRUE, v |-> x]

-----------------------------------------------------------------------------
(* The directory tree handed to CleanBackup.  /p is the parent of the root. *)

Root == "/p/r"
Dirs == {"/p", "/p/r", "/p/r/a", "/p/r/a/b", "/p/r/a/b/c"}
Files == {"/p/r/a/b/c/f3", "/p/r/a/f2", "/p/r/f1"}
Links == {"/p/r/l"}
Paths == Dirs \cup Files \cup Links

\* filepath.Dir
Dir(path) ==
    CASE path = "/p/r/a/b/c/f3" -> "/p/r/a/b/c"
      [] path = "/p/r/a/b/c" -> "/p/r/a/b"
      [] path = "/p/r/a/b"  -> "/p/r/a"
      [] path = "/p/r/a/f2" -> "/p/r/a"
      [] path = "/p/r/a"    -> "/p/r"
      [] path = "/p/r/f1"   -> "/p/r"
      [] path = "/p/r/l"    -> "/p/r"
      [] path = "/p/r"      -> "/p"
      [] path = "/p"        -> "/"
      [] OTHER              -> path

\* every name a directory may hold, in os.ReadDir's order (sorted by name)
AllEntries(dir) ==
    CASE dir = "/p"     -> <<"/p/r">>
      [] dir = "/p/r"   -> <<"/p/r/a", "/p/r/f1", "/p/r/l">>
      [] dir = "/p/r/a" -> <<"/p/r/a/b", "/p/r/a/f2">>
      [] dir = "/p/r/a/b" -> <<"/p/r/a/b/c">>
      [] dir = "/p/r/a/b/c" -> <<"/p/r/a/b/c/f3">>
      [] OTHER          -> <<>>

\* the entries of dir that exist in the file system fs
Entries(fs, dir) == SelectSeq(AllEntries(dir), LAMBDA e : e \in fs)

-----------------------------------------------------------------------------
(* Pure calculators *)

\* disk.go: calculateBlockSize
calculateBlockSize(fileSize, bs) ==
    IF bs <= 0 THEN fileSize
    ELSE LET blocks == quot(wrap(fileSize + bs - 1), bs)
         IN wrap(blocks * bs)

\* time.Time.Truncate: round down to a multiple of d since the zero time
Truncate(t, d) == IF d <= 0 THEN t ELSE t - (t % d)

\* a deleter that also removes the files modified exactly at the threshold
BeforeOrAt(t, u) == t <= u

\* time.Time.Before
Before(t, u) == t < u

\* uint64(float64(usage.Total) * (*config.MaxUsagePercent / 100)) in IEEE-754
\* double arithmetic.  percent / 100 is rounded to a double before the
\* multiplication, and where it rounds down the truncated product is one
\* below floor(total * percent / 100): 100 * (29 / 100) is
\* 28.999999999999996, truncated to 28 (likewise 57 and 58).  For the other
\* totals (10, 20, 100) and whole percentages 0 .. 100 the product is exact.
float64Product(total, percent) ==
    IF total = 100 /\ percent \in {29, 57, 58}
    THEN (total * percent) \div 100 - 1
    ELSE (total * percent) \div 100

\* a calculator whose MinFreeSpace candidate overrides a larger one
calculateTargetSizeLastWins(usage, cfg) ==
    LET t1 == IF cfg.MaxSize.set /\ usage.Used > cfg.MaxSize.v
              THEN usage.Used - cfg.MaxSize.v ELSE 0
        targetUsage == float64Product(usage.Total, cfg.MaxUsagePercent.v)
        t2 == IF cfg.MaxUsagePercent.set
                 /\ usage.UsedPercent > cfg.MaxUsagePercent.v
                 /\ usage.Used > targetUsage
                 /\ usage.Used - targetUsage > t1
              THEN usage.Used - targetUsage ELSE t1
    IN IF cfg.MinFreeSpace.set /\ usage.Free < cfg.MinFreeSpace.v
       THEN cfg.MinFreeSpace.v - usage.Free ELSE t2

\* a calculator that enters the percent branch without looking at the
\* reported UsedPercent
calculateTargetSizeUnguarded(usage, cfg) ==
    LET t1 == IF cfg.MaxSize.set /\ usage.Used > cfg.MaxSize.v
              THEN usage.Used - cfg.MaxSize.v ELSE 0
        targetUsage == float64Product(usage.Total, cfg.MaxUsagePercent.v)
        t2 == IF cfg.MaxUsagePercent.set
                 /\ usage.Used > targetUsage
                 /\ usage.Used - targetUsage > t1
              THEN usage.Used - targetUsage ELSE t1
        t3 == IF cfg.MinFreeSpace.set /\ usage.Free < cfg.MinFreeSpace.v
                 /\ cfg.MinFreeSpace.v - usage.Free > t2
              THEN cfg.MinFreeSpace.v - usage.Free ELSE t2
    IN t3

\* cleaner.go: calculateTargetSize.  UsedPercent and MaxUsagePercent are
\* float64 in the source; the model keeps them as whole percent points and
\* computes the target usage with float64Product.
calculateTargetSize(usage, cfg) ==
    LET t0 == 0
        t1 == IF cfg.MaxSize.set /\ usage.Used > cfg.MaxSize.v
                 /\ usage.Used - cfg.MaxSize.v > t0
              THEN usage.Used - cfg.MaxSize.v ELSE t0
        targetUsage == float64Product(usage.Total, cfg.MaxUsagePercent.v)
        t2 == IF cfg.MaxUsagePercent.set
                 /\ usage.UsedPercent > cfg.MaxUsagePercent.v
                 /\ usage.Used > targetUsage
                 /\ usage.Used - targetUsage > t1
              THEN usage.Used - targetUsage ELSE t1
        t3 == IF cfg.MinFreeSpace.set /\ usage.Free < cfg.MinFreeSpace.v
                 /\ cfg.MinFreeSpace.v - usage.Free > t2
              THEN cfg.MinFreeSpace.v - usage.Free ELSE t2
    IN t3

\* the loop of calculateThreshold from slot i on
RECURSIVE thresholdLoop(_, _, _, _, _, _)
thresholdLoop(ss, i, target, accumulatedSize, accumulatedFiles, thr) ==
    IF i > Len(ss)
    THEN [threshold |-> thr, files |-> accumulatedFiles, size |-> accumulatedSize]
    ELSE LET s == accumulatedSize + ss[i].totalBlockSize
             f == accumulatedFiles + Len(ss[i].files)
         IN IF s >= target
            THEN [threshold |-> ss[i].time + Second, files |-> f, size |-> s]
            ELSE thresholdLoop(ss, i + 1, target, s, f, thr)

\* a solver that goes on until the accumulated size exceeds the target
RECURSIVE thresholdLoopStrict(_, _, _, _, _, _)
thresholdLoopStrict(ss, i, target, accumulatedSize, accumulatedFiles, thr) ==
    IF i > Len(ss)
    THEN [threshold |-> thr, files |-> accumulatedFiles, size |-> accumulatedSize]
    ELSE LET s == accumulatedSize + ss[i].totalBlockSize
             f == accumulatedFiles + Len(ss[i].files)
         IN IF s > target
            THEN [threshold |-> ss[i].time + Second, files |-> f, size |-> s]
            ELSE thresholdLoopStrict(ss, i + 1, target, s, f, thr)

calculateThresholdStrict(ss, target) ==
    IF Len(ss) = 0
    THEN [threshold |-> ZeroTime, files |-> 0, size |-> 0]
    ELSE thresholdLoopStrict(ss, 1, target, 0, 0, ss[Len(ss)].time + Second)

\* a solver whose default threshold covers the whole newest slot
calculateThresholdWholeSlot(ss, target) ==
    IF Len(ss) = 0
    THEN [threshold |-> ZeroTime, files |-> 0, size |-> 0]
    ELSE thresholdLoop(ss, 1, target, 0, 0, ss[Len(ss)].time + config.TimeWindow)

\* a solver whose default threshold is the zero time, so that nothing is
\* deleted unless the loop accumulates the target
calculateThresholdZeroDefault(ss, target) ==
    IF Len(ss) = 0
    THEN [threshold |-> ZeroTime, files |-> 0, size |-> 0]
    ELSE thresholdLoop(ss, 1, target, 0, 0, ZeroTime)

\* a solver whose default threshold is taken from the oldest slot
calculateThresholdOldestDefault(ss, target) ==
    IF Len(ss) = 0
    THEN [threshold |-> ZeroTime, files |-> 0, size |-> 0]
    ELSE thresholdLoop(ss, 1, target, 0, 0, ss[1].time + Second)

\* cleaner.go: calculateThreshold
calculateThreshold(ss, target) ==
    IF Len(ss) = 0
    THEN [threshold |-> ZeroTime, files |-> 0, size |-> 0]
    ELSE thresholdLoop(ss, 1, target, 0, 0, ss[Len(ss)].time + Second)

\* sums of a field over all slots
RECURSIVE sumBlock(_, _)
sumBlock(ss, i) ==
    IF i > Len(ss) THEN 0 ELSE ss[i].totalBlockSize + sumBlock(ss, i + 1)

\* cleaner.go: getTotalSize
RECURSIVE getTotalSizeFrom(_, _)
getTotalSizeFrom(ss, i) ==
    IF i > Len(ss) THEN 0 ELSE ss[i].totalSize + getTotalSizeFrom(ss, i + 1)

getTotalSize(ss) == getTotalSizeFrom(ss, 1)

\* the loop of calculateThresholdForMaxSize from slot i on
RECURSIVE maxSizeLoop(_, _, _, _, _, _)
maxSizeLoop(ss, i, maxSize, remainingSize, deleteFiles, deleteSize) ==
    IF i > Len(ss)
    THEN IF Len(ss) > 0
         THEN [threshold |-> Now + Hour, files |-> deleteFiles, size |-> deleteSize]
         ELSE [threshold |-> ZeroTime, files |-> 0, size |-> 0]
    ELSE LET r == remainingSize - ss[i].totalBlockSize
             f == deleteFiles + Len(ss[i].files)
             d == deleteSize + ss[i].totalBlockSize
         IN IF r <= maxSize
            THEN [threshold |-> ss[i].time + Hour, files |-> f, size |-> d]
            ELSE maxSizeLoop(ss, i + 1, maxSize, r, f, d)

\* cleaner.go: calculateThresholdForMaxSize
calculateThresholdForMaxSize(ss, maxSize) ==
    LET totalSize == sumBlock(ss, 1)
    IN IF totalSize <= maxSize
       THEN [threshold |-> ZeroTime, files |-> 0, size |-> 0]
       ELSE maxSizeLoop(ss, 1, maxSize, totalSize, 0, 0)

\* one pass of the inner loop of sortTimeSlots over positions j .. last
RECURSIVE bubblePass(_, _, _)
bubblePass(ss, j, last) ==
    IF j > last THEN ss
    ELSE IF ss[j].time > ss[j + 1].time
         THEN bubblePass([ss EXCEPT ![j] = ss[j + 1], ![j + 1] = ss[j]], j + 1, last)
         ELSE bubblePass(ss, j + 1, last)

\* the outer loop of sortTimeSlots: pass i of n - 1
RECURSIVE bubbleFrom(_, _)
bubbleFrom(ss, i) ==
    IF i >= Len(ss) - 1 THEN ss
    ELSE bubbleFrom(bubblePass(ss, 1, Len(ss) - i - 1), i + 1)

\* a sortTimeSlots whose outer loop runs once
sortTimeSlotsOnePass(ss) == bubblePass(ss, 1, Len(ss) - 1)

\* scanner: sortTimeSlots (bubble sort, oldest first)
sortTimeSlots(ss) == bubbleFrom(ss, 0)

-----------------------------------------------------------------------------
(* Configuration *)

\* a setDefaults that leaves a zero Concurrency as it is
setDefaultsKeepsZeroConcurrency(cfg) ==
    [cfg EXCEPT
        !.TimeWindow = IF @ = 0 THEN DefaultTimeWindow ELSE @,
        !.MaxConcurrency = IF @ = 0 THEN DefaultMaxConcurrency ELSE @]

\* config.go: setDefaults (the DiskInfo default is the provider of the model)
setDefaults(cfg) ==
    [cfg EXCEPT
        !.TimeWindow = IF @ = 0 THEN DefaultTimeWindow ELSE @,
        !.Concurrency = IF @ = 0 THEN NumCPU ELSE @,
        !.MaxConcurrency = IF @ = 0 THEN DefaultMaxConcurrency ELSE @]

\* a worker count that ignores the cap
ActualWorkerCountUncapped(cfg) == cfg.Concurrency

\* config.go: ActualWorkerCount
ActualWorkerCount(cfg) ==
    IF cfg.Concurrency > cfg.MaxConcurrency THEN cfg.MaxConcurrency
    ELSE cfg.Concurrency

\* a validate that does not look at the concurrency settings
validateCapacityAndWindow(cfg) ==
    IF ~cfg.MinFreeSpace.set /\ ~cfg.MaxUsagePercent.set /\ ~cfg.MaxSize.set
    THEN "ErrNoCapacitySpecified"
    ELSE IF cfg.MinFreeSpace.set /\ cfg.MinFreeSpace.v < 0 THEN "ErrInvalidConfig"
    ELSE IF cfg.MaxUsagePercent.set
            /\ (cfg.MaxUsagePercent.v < 0 \/ cfg.MaxUsagePercent.v > 100)
    THEN "ErrInvalidConfig"
    ELSE IF cfg.MaxSize.set /\ cfg.MaxSize.v < 0 THEN "ErrInvalidConfig"
    ELSE IF cfg.TimeWindow < 0 THEN "ErrInvalidConfig"
    ELSE ""

\* config.go: validate, "" for nil
validate(cfg) ==
    IF ~cfg.MinFreeSpace.set /\ ~cfg.MaxUsagePercent.set /\ ~cfg.MaxSize.set
    THEN "ErrNoCapacitySpecified"
    ELSE IF cfg.MinFreeSpace.set /\ cfg.MinFreeSpace.v < 0 THEN "ErrInvalidConfig"
    ELSE IF cfg.MaxUsagePercent.set
            /\ (cfg.MaxUsagePercent.v < 0 \/ cfg.MaxUsagePercent.v > 100)
    THEN "ErrInvalidConfig"
    ELSE IF cfg.MaxSize.set /\ cfg.MaxSize.v < 0 THEN "ErrInvalidConfig"
    ELSE IF cfg.TimeWindow < 0 THEN "ErrInvalidConfig"
    ELSE IF cfg.Concurrency < 0 THEN "ErrInvalidConfig"
    ELSE IF cfg.MaxConcurrency < 0 THEN "ErrInvalidConfig"
    ELSE ""

\* a CleanBackup that goes on without disk usage only if MaxSize stands alone
proceedsOnlyWithMaxSizeAlone(cfg) ==
    cfg.MaxSize.set /\ ~cfg.MaxUsagePercent.set /\ ~cfg.MinFreeSpace.set

\* cleaner.go: CleanBackup goes on without disk usage exactly when MaxSize is set
proceedsWithoutUsage(cfg) == cfg.MaxSize.set

-----------------------------------------------------------------------------
(* File system calls; "" is a nil error *)

Lstat(fs, path) ==
    IF path \notin fs THEN "ENOENT"
    ELSE IF path \in faults.lstat THEN "EACCES"
    ELSE ""

ReadDir(fs, dir) ==
    IF dir \notin fs THEN "ENOENT"
    ELSE IF dir \in faults.readDir THEN "EACCES"
    ELSE ""

Remove(fs, path) ==
    IF path \notin fs THEN "ENOENT"
    ELSE IF path \in faults.remove THEN "EACCES"
    ELSE ""

\* what a symbolic link points to
LinkTarget(path) == "/p/r/f1"

\* the FileInfo of os.Stat, which follows a symbolic link to its target
StatInfo(path) ==
    LET p == IF path \in Links THEN LinkTarget(path) ELSE path
    IN IF p \in Dirs THEN [mode |-> "dir", size |-> 0, modTime |-> ZeroTime]
       ELSE [mode |-> "regular", size |-> size[p], modTime |-> modTime[p]]

\* the FileInfo of os.Lstat: a symbolic link is reported as such, with its
\* own modification time (taken as old as can be, the zero time)
LstatInfo(path) ==
    IF path \in Links THEN [mode |-> "symlink", size |-> 1, modTime |-> ZeroTime]
    ELSE IF path \in Dirs THEN [mode |-> "dir", size |-> 0, modTime |-> ZeroTime]
    ELSE [mode |-> "regular", size |-> size[path], modTime |-> modTime[path]]

Event(ev, type, path) == [ev |-> ev, type |-> type, path |-> path]

-----------------------------------------------------------------------------
(* Scanner *)

\* an addFile that adds the logical size to both totals
addFileLogicalOnly(ts, fi) ==
    LET slotTime == Truncate(fi.modTime, config.TimeWindow)
        slot == IF slotTime \in DOMAIN ts THEN ts[slotTime]
                ELSE [time |-> slotTime, files |-> <<>>,
                      totalSize |-> 0, totalBlockSize |-> 0]
        added == [slot EXCEPT !.files = Append(@, fi),
                              !.totalSize = @ + fi.size,
                              !.totalBlockSize = @ + fi.size]
    IN [t \in DOMAIN ts \cup {slotTime} |-> IF t = slotTime THEN added ELSE ts[t]]

\* scanner.addFile on the slot map ts
addFile(ts, fi) ==
    LET slotTime == Truncate(fi.modTime, config.TimeWindow)
        slot == IF slotTime \in DOMAIN ts THEN ts[slotTime]
                ELSE [time |-> slotTime, files |-> <<>>,
                      totalSize |-> 0, totalBlockSize |-> 0]
        added == [slot EXCEPT !.files = Append(@, fi),
                              !.totalSize = @ + fi.size,
                              !.totalBlockSize = @ + fi.blockSize]
    IN [t \in DOMAIN ts \cup {slotTime} |-> IF t = slotTime THEN added ELSE ts[t]]

\* scanner.processPath on the walker state st = [chan, wg, ts]; scanEntries
\* is its loop over the directory entries es from position i on
RECURSIVE scanProcessPath(_, _), scanEntries(_, _, _)
scanProcessPath(st, path) ==
    IF Lstat(present, path) # "" THEN [st |-> st, err |-> Lstat(present, path)]
    ELSE IF LstatInfo(path).mode = "symlink" THEN [st |-> st, err |-> ""]
    ELSE IF LstatInfo(path).mode = "dir"
    THEN IF ReadDir(present, path) # ""
         THEN [st |-> st, err |-> ReadDir(present, path)]
         ELSE scanEntries(st, Entries(present, path), 1)
    ELSE IF LstatInfo(path).mode = "regular"
    THEN [st |-> [st EXCEPT !.ts = addFile(@,
                     [path |-> path, size |-> LstatInfo(path).size,
                      blockSize |-> calculateBlockSize(LstatInfo(path).size,
                                                       blockSize),
                      modTime |-> LstatInfo(path).modTime])],
          err |-> ""]
    ELSE [st |-> st, err |-> ""]

scanEntries(st, es, i) ==
    IF i > Len(es) THEN [st |-> st, err |-> ""]
    ELSE IF Len(st.chan) < QueueCap
    THEN scanEntries([st EXCEPT !.chan = Append(@, es[i]), !.wg = @ + 1], es, i + 1)
    ELSE LET r == scanProcessPath(st, es[i])
         IN IF r.err # "" THEN r ELSE scanEntries(r.st, es, i + 1)

\* scanner.getTotalFiles over the slot times D of the slot map ts
RECURSIVE countFiles(_, _)
countFiles(ts, D) ==
    IF D = {} THEN 0
    ELSE LET t == CHOOSE x \in D : TRUE
         IN Len(ts[t].files) + countFiles(ts, D \ {t})

getTotalFiles == countFiles(timeSlots, DOMAIN timeSlots)

\* the orders in which the slot map can be iterated
SlotOrders(ts) ==
    {o \in [1 .. Cardinality(DOMAIN ts) -> DOMAIN ts] :
        \A i, j \in DOMAIN o : i # j => o[i] # o[j]}

-----------------------------------------------------------------------------
(* Deleter *)

\* deleter.processPath on st = [chan, wg, fs, del, cb]; deleteEntries is its
\* loop over the directory entries es from position i on
RECURSIVE deleteProcessPath(_, _), deleteEntries(_, _, _)
deleteProcessPath(st, path) ==
    IF Lstat(st.fs, path) = "ENOENT" THEN [st |-> st, err |-> ""]
    ELSE IF Lstat(st.fs, path) # "" THEN [st |-> st, err |-> Lstat(st.fs, path)]
    ELSE IF LstatInfo(path).mode = "symlink" THEN [st |-> st, err |-> ""]
    ELSE IF LstatInfo(path).mode = "dir"
    THEN IF ReadDir(st.fs, path) # ""
         THEN [st |-> st, err |-> ReadDir(st.fs, path)]
         ELSE deleteEntries(st, Entries(st.fs, path), 1)
    ELSE IF LstatInfo(path).mode = "regular"
            /\ Before(LstatInfo(path).modTime, threshold)
    THEN IF Remove(st.fs, path) # ""
         THEN [st |-> st, err |-> Remove(st.fs, path)]
         ELSE [st |-> [st EXCEPT
                         !.fs = @ \ {path},
                         !.del = [files |-> @.files + 1,
                                  size |-> @.size + LstatInfo(path).size,
                                  blocks |-> @.blocks
                                      + calculateBlockSize(LstatInfo(path).size,
                                                           blockSize),
                                  dirs |-> @.dirs \cup {Dir(path)}],
                         !.cb = Append(@, Event("OnFileDeleted", "", path))],
               err |-> ""]
    ELSE [st |-> st, err |-> ""]

deleteEntries(st, es, i) ==
    IF i > Len(es) THEN [st |-> st, err |-> ""]
    ELSE IF Len(st.chan) < QueueCap
    THEN deleteEntries([st EXCEPT !.chan = Append(@, es[i]), !.wg = @ + 1], es, i + 1)
    ELSE LET r == deleteProcessPath(st, es[i])
         IN IF r.err # "" THEN r ELSE deleteEntries(r.st, es, i + 1)

\* a reaper that removes an empty directory without trying its parent
deleteEmptyDirOnly(st, dir) ==
    IF ReadDir(st.fs, dir) = "ENOENT" THEN [st |-> st, err |-> ""]
    ELSE IF ReadDir(st.fs, dir) # "" THEN [st |-> st, err |-> ReadDir(st.fs, dir)]
    ELSE IF Len(Entries(st.fs, dir)) = 0
    THEN IF Remove(st.fs, dir) # ""
         THEN [st |-> st, err |-> Remove(st.fs, dir)]
         ELSE [st |-> [fs |-> st.fs \ {dir}, count |-> st.count + 1,
                       cb |-> Append(st.cb, Event("OnDirDeleted", "", dir))],
               err |-> ""]
    ELSE [st |-> st, err |-> ""]

\* deleter.deleteEmptyDirRecursive on st = [fs, count, cb]
RECURSIVE deleteEmptyDirRecursive(_, _)
deleteEmptyDirRecursive(st, dir) ==
    IF ReadDir(st.fs, dir) = "ENOENT" THEN [st |-> st, err |-> ""]
    ELSE IF ReadDir(st.fs, dir) # "" THEN [st |-> st, err |-> ReadDir(st.fs, dir)]
    ELSE IF Len(Entries(st.fs, dir)) = 0
    THEN IF Remove(st.fs, dir) # ""
         THEN [st |-> st, err |-> Remove(st.fs, dir)]
         ELSE LET st2 == [fs |-> st.fs \ {dir}, count |-> st.count + 1,
                          cb |-> Append(st.cb, Event("OnDirDeleted", "", dir))]
                  parent == Dir(dir)
              IN IF parent # dir /\ parent # "." /\ parent # "/"
                 THEN deleteEmptyDirRecursive(st2, parent)
                 ELSE [st |-> st2, err |-> ""]
    ELSE [st |-> st, err |-> ""]

-----------------------------------------------------------------------------
(* Inputs of one invocation *)

ModTimes == {7200, 7201, 10800}
Sizes == {1, 3}
TimeWindows == {0, 1, 7200}

Configs ==
    [MaxSize : {None, Some(4)},
     MaxUsagePercent : {None, Some(50)},
     MinFreeSpace : {None, Some(14)},
     TimeWindow : TimeWindows,
     RemoveEmptyDirs : BOOLEAN,
     Concurrency : {0},
     MaxConcurrency : {0}]

NoUsage == [ok |-> FALSE, Total |-> 0, Free |-> 0, Used |-> 0, UsedPercent |-> 0]
Usage(total, used) ==
    [ok |-> TRUE, Total |-> total, Free |-> total - used, Used |-> used,
     UsedPercent |-> (used * 100) \div total]

\* answers of GetDiskUsage and GetBlockSize (bsOk = FALSE: GetBlockSize fails)
Providers ==
    {[usage |-> NoUsage, bsOk |-> TRUE, bs |-> 2],
     [usage |-> Usage(20, 8), bsOk |-> TRUE, bs |-> 2],
     [usage |-> Usage(20, 8), bsOk |-> TRUE, bs |-> 0],
     [usage |-> Usage(20, 20), bsOk |-> TRUE, bs |-> 2],
     [usage |-> Usage(20, 20), bsOk |-> FALSE, bs |-> 0]}

NoFaults == [lstat |-> {}, readDir |-> {}, remove |-> {}]
FaultScenarios ==
    {NoFaults,
     [NoFaults EXCEPT !.readDir = {"/p/r/a"}],
     [NoFaults EXCEPT !.lstat = {"/p/r/a/f2"}],
     [NoFaults EXCEPT !.remove = {"/p/r/f1"}],
     [NoFaults EXCEPT !.remove = {"/p/r/a"}]}

ZeroReport ==
    [DeletedFiles |-> 0, DeletedSize |-> 0, DeletedBlockSize |-> 0,
     DeletedDirs |-> 0, ScannedFiles |-> 0, TimeThreshold |-> ZeroTime,
     BlockSize |-> 0]

NoEstimate == [files |-> 0, size |-> 0]
NoCall == [n |-> 0, u |-> 0, r |-> 0, rr |-> 0]

\* no phase is running: no worker goroutine exists
WalkIdle ==
    /\ workerCount = 0
    /\ workers = <<>>
    /\ closer = "idle"
    /\ errChan = <<>>
    /\ visits = [p \in Paths |-> 0]
    /\ external = {}
    /\ call = NoCall
NewDeleter == [files |-> 0, size |-> 0, blocks |-> 0, dirs |-> {}]
NoSlots == [t \in {} |-> 0]

\* trees without regular files: no root, an empty root, a root holding a link
BareTrees == {{"/p"}, {"/p", "/p/r"}, {"/p", "/p/r", "/p/r/l"}}

\* two files, a subdirectory and a symbolic link under the root
MixedTree == {"/p", "/p/r", "/p/r/a", "/p/r/a/f2", "/p/r/f1", "/p/r/l"}
\* the same without the link
PlainTree == MixedTree \ Links
\* one file three directories below the root, alone or beside a file of the
\* root
ChainTree ==
    {"/p", "/p/r", "/p/r/a", "/p/r/a/b", "/p/r/a/b/c", "/p/r/a/b/c/f3"}
ChainTrees == {ChainTree, ChainTree \cup {"/p/r/f1"}}
\* two files and a subdirectory that is empty from the start
EmptyDirTree ==
    {"/p", "/p/r", "/p/r/a", "/p/r/a/b", "/p/r/a/f2", "/p/r/f1"}

Init ==
    /\ config \in Configs
    /\ provider \in Providers
    /\ \/ /\ present = MixedTree
          /\ faults \in FaultScenarios
          /\ modTime \in {m \in [Files -> ModTimes] : m["/p/r/a/b/c/f3"] = 7200}
          /\ size \in {z \in [Files -> Sizes] : z["/p/r/a/b/c/f3"] = 1}
       \/ /\ present = PlainTree
          /\ faults = NoFaults
          /\ modTime \in {m \in [Files -> ModTimes] : m["/p/r/a/b/c/f3"] = 7200}
          /\ size = [f \in Files |-> 1]
       \/ /\ present = PlainTree
          /\ faults = NoFaults
          /\ modTime = [f \in Files |-> IF f = "/p/r/a/f2" THEN 10801 ELSE 7200]
          /\ size = [f \in Files |-> 1]
       \/ /\ present \in ChainTrees
          /\ faults \in {NoFaults, [NoFaults EXCEPT !.remove = {"/p/r/a/b"}]}
          /\ modTime \in {m \in [Files -> ModTimes] : m["/p/r/a/f2"] = 7200}
          /\ size = [f \in Files |-> 1]
       \/ /\ present \in BareTrees \cup {EmptyDirTree}
          /\ faults = NoFaults
          /\ modTime = [f \in Files |-> 7200]
          /\ size = [f \in Files |-> 1]
    /\ tree = present
    /\ pc = "start"
    /\ targetSize = 0
    /\ blockSize = 0
    /\ taskChan = <<>>
    /\ taskWg = 0
    /\ firstErr = ""
    /\ timeSlots = NoSlots
    /\ slots = <<>>
    /\ threshold = ZeroTime
    /\ estimate = NoEstimate
    /\ deleter = NewDeleter
    /\ reapLeft = {}
    /\ deletedDirs = 0
    /\ cb = <<>>
    /\ report = ZeroReport
    /\ err = ""
    /\ WalkIdle

-----------------------------------------------------------------------------
(* CleanBackup *)

\* return rep, e from CleanBackup
Return(rep, e) ==
    /\ pc' = "done"
    /\ report' = rep
    /\ err' = e

\* the budget CleanBackup computes before the scan (cleaner.go lines 39-55)
budgetOf(cfg, usage) ==
    IF ~usage.ok /\ cfg.MaxSize.set THEN -1 ELSE calculateTargetSize(usage, cfg)

\* validate fails
StartInvalid ==
    /\ pc = "start"
    /\ validate(setDefaults(config)) # ""
    /\ config' = setDefaults(config)
    /\ Return(ZeroReport, validate(setDefaults(config)))
    /\ UNCHANGED walkVars
    /\ UNCHANGED <<provider, faults, modTime, size, tree, present, targetSize,
                   blockSize, taskChan, taskWg, firstErr, timeSlots, slots,
                   threshold, estimate, deleter, reapLeft, deletedDirs, cb>>

\* os.Stat of the root fails
StartNoDirectory ==
    /\ pc = "start"
    /\ validate(setDefaults(config)) = ""
    /\ Root \notin present
    /\ config' = setDefaults(config)
    /\ Return(ZeroReport, "ErrDirectoryNotFound")
    /\ UNCHANGED walkVars
    /\ UNCHANGED <<provider, faults, modTime, size, tree, present, targetSize,
                   blockSize, taskChan, taskWg, firstErr, timeSlots, slots,
                   threshold, estimate, deleter, reapLeft, deletedDirs, cb>>

\* GetDiskUsage fails and CleanBackup cannot go on without it
StartNoUsage ==
    /\ pc = "start"
    /\ validate(setDefaults(config)) = ""
    /\ Root \in present
    /\ ~provider.usage.ok
    /\ ~proceedsWithoutUsage(config)
    /\ config' = setDefaults(config)
    /\ Return(ZeroReport, "DiskUsageError")
    /\ UNCHANGED walkVars
    /\ UNCHANGED <<provider, faults, modTime, size, tree, present, targetSize,
                   blockSize, taskChan, taskWg, firstErr, timeSlots, slots,
                   threshold, estimate, deleter, reapLeft, deletedDirs, cb>>

\* a CleanBackup that calls OnStart before it looks at the budget
StartNothingToDoAfterOnStart ==
    /\ pc = "start"
    /\ validate(setDefaults(config)) = ""
    /\ Root \in present
    /\ provider.usage.ok
    /\ calculateTargetSize(provider.usage, config) <= 0
    /\ config' = setDefaults(config)
    /\ targetSize' = calculateTargetSize(provider.usage, config)
    /\ cb' = Append(cb, Event("OnStart", "", Root))
    /\ Return(ZeroReport, "")
    /\ UNCHANGED walkVars
    /\ UNCHANGED <<provider, faults, modTime, size, tree, present,
                   blockSize, taskChan, taskWg, firstErr, timeSlots, slots,
                   threshold, estimate, deleter, reapLeft, deletedDirs>>

\* the constraints already hold: nothing to delete
StartNothingToDo ==
    /\ pc = "start"
    /\ validate(setDefaults(config)) = ""
    /\ Root \in present
    /\ provider.usage.ok
    /\ calculateTargetSize(provider.usage, config) <= 0
    /\ config' = setDefaults(config)
    /\ targetSize' = calculateTargetSize(provider.usage, config)
    /\ Return(ZeroReport, "")
    /\ UNCHANGED walkVars
    /\ UNCHANGED <<provider, faults, modTime, size, tree, present,
                   blockSize, taskChan, taskWg, firstErr, timeSlots, slots,
                   threshold, estimate, deleter, reapLeft, deletedDirs, cb>>

\* a CleanBackup that asks for the block size only after OnStart
StartNoBlockSizeAfterOnStart ==
    /\ pc = "start"
    /\ validate(setDefaults(config)) = ""
    /\ Root \in present
    /\ provider.usage.ok \/ proceedsWithoutUsage(config)
    /\ budgetOf(config, provider.usage) # 0
    /\ ~provider.bsOk
    /\ config' = setDefaults(config)
    /\ targetSize' = budgetOf(config, provider.usage)
    /\ cb' = Append(cb, Event("OnStart", "", Root))
    /\ Return(ZeroReport, "BlockSizeError")
    /\ UNCHANGED walkVars
    /\ UNCHANGED <<provider, faults, modTime, size, tree, present,
                   blockSize, taskChan, taskWg, firstErr, timeSlots, slots,
                   threshold, estimate, deleter, reapLeft, deletedDirs>>

\* there is a budget (or the MaxSize-only mode) and GetBlockSize fails
StartNoBlockSize ==
    /\ pc = "start"
    /\ validate(setDefaults(config)) = ""
    /\ Root \in present
    /\ provider.usage.ok \/ proceedsWithoutUsage(config)
    /\ budgetOf(config, provider.usage) # 0
    /\ ~provider.bsOk
    /\ config' = setDefaults(config)
    /\ targetSize' = budgetOf(config, provider.usage)
    /\ Return(ZeroReport, "BlockSizeError")
    /\ UNCHANGED walkVars
    /\ UNCHANGED <<provider, faults, modTime, size, tree, present,
                   blockSize, taskChan, taskWg, firstErr, timeSlots, slots,
                   threshold, estimate, deleter, reapLeft, deletedDirs, cb>>

\* OnStart, then the scanner is created and seeded with the root
StartScan ==
    /\ pc = "start"
    /\ validate(setDefaults(config)) = ""
    /\ Root \in present
    /\ provider.usage.ok \/ proceedsWithoutUsage(config)
    /\ budgetOf(config, provider.usage) # 0
    /\ provider.bsOk
    /\ config' = setDefaults(config)
    /\ targetSize' = budgetOf(config, provider.usage)
    /\ blockSize' = provider.bs
    /\ cb' = Append(cb, Event("OnStart", "", Root))
    /\ taskWg' = 1
    /\ taskChan' = <<Root>>
    /\ pc' = "scan"
    /\ UNCHANGED walkVars
    /\ UNCHANGED <<provider, faults, modTime, size, tree, present, firstErr,
                   timeSlots, slots, threshold, estimate, deleter, reapLeft,
                   deletedDirs, report, err>>

\* scanner.worker takes one task, runs processPath on it and marks it done;
\* an error goes through the error channel to the collector in scanner.scan
ScanWorker ==
    /\ pc = "scan"
    /\ taskChan # <<>>
    /\ LET r == scanProcessPath([chan |-> Tail(taskChan), wg |-> taskWg,
                                 ts |-> timeSlots], Head(taskChan))
       IN /\ taskChan' = r.st.chan
          /\ taskWg' = r.st.wg - 1
          /\ timeSlots' = r.st.ts
          /\ firstErr' = IF firstErr = "" THEN r.err ELSE firstErr
          /\ cb' = IF r.err # "" THEN Append(cb, Event("OnError", "scan", ""))
                   ELSE cb
    /\ UNCHANGED walkVars
    /\ UNCHANGED <<config, provider, faults, modTime, size, tree, present, pc,
                   targetSize, blockSize, slots, threshold, estimate, deleter,
                   reapLeft, deletedDirs, report, err>>

\* scanner.scan returned an error: CleanBackup returns it
ScanFailed ==
    /\ pc = "scan"
    /\ taskWg = 0
    /\ firstErr # ""
    /\ Return(ZeroReport, firstErr)
    /\ UNCHANGED walkVars
    /\ UNCHANGED <<config, provider, faults, modTime, size, tree, present,
                   targetSize, blockSize, taskChan, taskWg, firstErr,
                   timeSlots, slots, threshold, estimate, deleter, reapLeft,
                   deletedDirs, cb>>

\* scanner.scan returned nil and getTimeSlots is empty
ScanEmpty ==
    /\ pc = "scan"
    /\ taskWg = 0
    /\ firstErr = ""
    /\ DOMAIN timeSlots = {}
    /\ Return(ZeroReport, "")
    /\ UNCHANGED walkVars
    /\ UNCHANGED <<config, provider, faults, modTime, size, tree, present,
                   targetSize, blockSize, taskChan, taskWg, firstErr,
                   timeSlots, slots, threshold, estimate, deleter, reapLeft,
                   deletedDirs, cb>>

\* the threshold CleanBackup picks for the sorted slots ss
solve(ss) ==
    IF targetSize = -1 /\ config.MaxSize.set
    THEN calculateThresholdForMaxSize(ss, config.MaxSize.v)
    ELSE calculateThreshold(ss, targetSize)

\* a CleanBackup that announces the delete phase before the scan result
ScanCompleteDeleteStartFirst ==
    /\ pc = "scan"
    /\ taskWg = 0
    /\ firstErr = ""
    /\ DOMAIN timeSlots # {}
    /\ \E o \in SlotOrders(timeSlots) :
          LET ss == sortTimeSlots([i \in DOMAIN o |-> timeSlots[o[i]]])
              th == solve(ss)
          IN /\ slots' = ss
             /\ threshold' = th.threshold
             /\ estimate' = [files |-> th.files, size |-> th.size]
    /\ cb' = cb \o <<Event("OnDeleteStart", "", ""),
                     Event("OnScanComplete", "", "")>>
    /\ deleter' = NewDeleter
    /\ taskWg' = 1
    /\ taskChan' = <<Root>>
    /\ pc' = "delete"
    /\ UNCHANGED walkVars
    /\ UNCHANGED <<config, provider, faults, modTime, size, tree, present,
                   targetSize, blockSize, firstErr, timeSlots, reapLeft,
                   deletedDirs, report, err>>

\* scanner.scan returned nil: sort the slots, solve the threshold, call
\* OnScanComplete and OnDeleteStart, create the deleter and seed it
ScanComplete ==
    /\ pc = "scan"
    /\ taskWg = 0
    /\ firstErr = ""
    /\ DOMAIN timeSlots # {}
    /\ \E o \in SlotOrders(timeSlots) :
          LET ss == sortTimeSlots([i \in DOMAIN o |-> timeSlots[o[i]]])
              th == solve(ss)
          IN /\ slots' = ss
             /\ threshold' = th.threshold
             /\ estimate' = [files |-> th.files, size |-> th.size]
    /\ cb' = cb \o <<Event("OnScanComplete", "", ""), Event("OnDeleteStart", "", "")>>
    /\ deleter' = NewDeleter
    /\ taskWg' = 1
    /\ taskChan' = <<Root>>
    /\ pc' = "delete"
    /\ UNCHANGED walkVars
    /\ UNCHANGED <<config, provider, faults, modTime, size, tree, present,
                   targetSize, blockSize, firstErr, timeSlots, reapLeft,
                   deletedDirs, report, err>>

\* deleter.worker takes one task, runs processPath on it and marks it done;
\* an error goes through the error channel to the collector in deleteFiles
DeleteWorker ==
    /\ pc = "delete"
    /\ taskChan # <<>>
    /\ LET r == deleteProcessPath([chan |-> Tail(taskChan), wg |-> taskWg,
                                   fs |-> present, del |-> deleter, cb |-> cb],
                                  Head(taskChan))
       IN /\ taskChan' = r.st.chan
          /\ taskWg' = r.st.wg - 1
          /\ present' = r.st.fs
          /\ deleter' = r.st.del
          /\ firstErr' = IF firstErr = "" THEN r.err ELSE firstErr
          /\ cb' = IF r.err # ""
                   THEN Append(r.st.cb, Event("OnError", "delete", ""))
                   ELSE r.st.cb
    /\ UNCHANGED walkVars
    /\ UNCHANGED <<config, provider, faults, modTime, size, tree, pc, targetSize,
                   blockSize, timeSlots, slots, threshold, estimate, reapLeft,
                   deletedDirs, report, err>>

\* deleteFiles returned an error: CleanBackup returns it
DeleteFailed ==
    /\ pc = "delete"
    /\ taskWg = 0
    /\ firstErr # ""
    /\ Return(ZeroReport, firstErr)
    /\ UNCHANGED walkVars
    /\ UNCHANGED <<config, provider, faults, modTime, size, tree, present,
                   targetSize, blockSize, taskChan, taskWg, firstErr,
                   timeSlots, slots, threshold, estimate, deleter, reapLeft,
                   deletedDirs, cb>>

\* a reaper that does not look at RemoveEmptyDirs
DeleteCompleteAlwaysReap ==
    /\ pc = "delete"
    /\ taskWg = 0
    /\ firstErr = ""
    /\ reapLeft' = deleter.dirs
    /\ deletedDirs' = 0
    /\ pc' = "reap"
    /\ UNCHANGED walkVars
    /\ UNCHANGED <<config, provider, faults, modTime, size, tree, present,
                   targetSize, blockSize, taskChan, taskWg, firstErr,
                   timeSlots, slots, threshold, estimate, deleter, cb,
                   report, err>>

\* a reaper that sweeps every directory under the root
DeleteCompleteSweepsAll ==
    /\ pc = "delete"
    /\ taskWg = 0
    /\ firstErr = ""
    /\ reapLeft' = IF config.RemoveEmptyDirs
                   THEN (Dirs \cap present) \ {"/p"} ELSE {}
    /\ deletedDirs' = 0
    /\ pc' = "reap"
    /\ UNCHANGED walkVars
    /\ UNCHANGED <<config, provider, faults, modTime, size, tree, present,
                   targetSize, blockSize, taskChan, taskWg, firstErr,
                   timeSlots, slots, threshold, estimate, deleter, cb,
                   report, err>>

\* deleteFiles returned nil: deleteEmptyDirs takes the deleted-directory set
\* (nothing to visit when RemoveEmptyDirs is off)
DeleteComplete ==
    /\ pc = "delete"
    /\ taskWg = 0
    /\ firstErr = ""
    /\ reapLeft' = IF config.RemoveEmptyDirs THEN deleter.dirs ELSE {}
    /\ deletedDirs' = 0
    /\ pc' = "reap"
    /\ UNCHANGED walkVars
    /\ UNCHANGED <<config, provider, faults, modTime, size, tree, present,
                   targetSize, blockSize, taskChan, taskWg, firstErr,
                   timeSlots, slots, threshold, estimate, deleter, cb,
                   report, err>>

\* one iteration of the loop of deleteEmptyDirs; the slice comes from a map,
\* so the directories are met in any order
ReapDir ==
    /\ pc = "reap"
    /\ \E dir \in reapLeft :
          LET r == deleteEmptyDirRecursive(
                       [fs |-> present, count |-> deletedDirs, cb |-> cb], dir)
          IN /\ reapLeft' = reapLeft \ {dir}
             /\ present' = r.st.fs
             /\ deletedDirs' = r.st.count
             /\ cb' = IF r.err # ""
                      THEN Append(r.st.cb, Event("OnError", "dir", dir))
                      ELSE r.st.cb
    /\ UNCHANGED walkVars
    /\ UNCHANGED <<config, provider, faults, modTime, size, tree, pc, targetSize,
                   blockSize, taskChan, taskWg, firstErr, timeSlots, slots,
                   threshold, estimate, deleter, report, err>>

\* getStats, OnComplete and the report
Complete ==
    /\ pc = "reap"
    /\ reapLeft = {}
    /\ cb' = Append(cb, Event("OnComplete", "", ""))
    /\ Return([DeletedFiles |-> deleter.files,
               DeletedSize |-> deleter.size,
               DeletedBlockSize |-> deleter.blocks,
               DeletedDirs |-> deletedDirs,
               ScannedFiles |-> getTotalFiles,
               TimeThreshold |-> threshold,
               BlockSize |-> blockSize], "")
    /\ UNCHANGED walkVars
    /\ UNCHANGED <<config, provider, faults, modTime, size, tree, present,
                   targetSize, blockSize, taskChan, taskWg, firstErr,
                   timeSlots, slots, threshold, estimate, deleter, reapLeft,
                   deletedDirs>>

Next ==
    \/ StartInvalid
    \/ StartNoDirectory
    \/ StartNoUsage
    \/ StartNothingToDo
    \/ StartNoBlockSize
    \/ StartScan
    \/ ScanWorker
    \/ ScanFailed
    \/ ScanEmpty
    \/ ScanComplete
    \/ DeleteWorker
    \/ DeleteFailed
    \/ DeleteComplete
    \/ ReapDir
    \/ Complete

Spec == Init /\ [][Next]_vars

-----------------------------------------------------------------------------
(* calculateTargetSize on its own: any DiskUsage a provider may hand over,   *)
(* the reported UsedPercent included, against any valid constraint set       *)

TargetConfigs ==
    [MaxSize : {None, Some(0), Some(6), Some(10)},
     MaxUsagePercent : {None, Some(0), Some(29), Some(50), Some(100)},
     MinFreeSpace : {None, Some(0), Some(3), Some(10)},
     TimeWindow : {DefaultTimeWindow},
     RemoveEmptyDirs : {TRUE},
     Concurrency : {0},
     MaxConcurrency : {0}]

TargetUsages ==
    {[ok |-> TRUE, Total |-> 10, Free |-> free, Used |-> used, UsedPercent |-> pct] :
        used \in {0, 4, 5, 6, 8, 10}, free \in {0, 2, 5, 10},
        pct \in {0, 40, 50, 60, 80, 100}}
    \cup
    {[ok |-> TRUE, Total |-> 100, Free |-> free, Used |-> used, UsedPercent |-> used] :
        used \in {28, 29, 30}, free \in {0, 70}}

TargetInit ==
    /\ config \in TargetConfigs
    /\ \E u \in TargetUsages :
          /\ u.Used + u.Free <= u.Total
          /\ provider = [usage |-> u, bsOk |-> TRUE, bs |-> 2]
    /\ faults = NoFaults
    /\ modTime = [f \in Files |-> 7200]
    /\ size = [f \in Files |-> 1]
    /\ present = MixedTree
    /\ tree = MixedTree
    /\ pc = "target"
    /\ targetSize = 0
    /\ blockSize = 0
    /\ taskChan = <<>>
    /\ taskWg = 0
    /\ firstErr = ""
    /\ timeSlots = NoSlots
    /\ slots = <<>>
    /\ threshold = ZeroTime
    /\ estimate = NoEstimate
    /\ deleter = NewDeleter
    /\ reapLeft = {}
    /\ deletedDirs = 0
    /\ cb = <<>>
    /\ report = ZeroReport
    /\ err = ""
    /\ WalkIdle

\* one call of calculateTargetSize
CalcTarget ==
    /\ pc = "target"
    /\ targetSize' = calculateTargetSize(provider.usage, config)
    /\ pc' = "targeted"
    /\ UNCHANGED walkVars
    /\ UNCHANGED <<config, provider, faults, modTime, size, tree, present,
                   blockSize, taskChan, taskWg, firstErr, timeSlots, slots,
                   threshold, estimate, deleter, reapLeft, deletedDirs, cb,
                   report, err>>

TargetNext == CalcTarget

TargetSpec == TargetInit /\ [][TargetNext]_vars

-----------------------------------------------------------------------------
(* setDefaults and validate on their own: any configuration a caller may     *)
(* hand over, invalid values included                                        *)

ValidateConfigs ==
    [MaxSize : {None, Some(-1), Some(0), Some(4)},
     MaxUsagePercent : {None, Some(-1), Some(0), Some(100), Some(101)},
     MinFreeSpace : {None, Some(-1), Some(0)},
     TimeWindow : {-1, 0, 1},
     RemoveEmptyDirs : {TRUE},
     Concurrency : {-1, 0, 2},
     MaxConcurrency : {-1, 0, 1, 4}]

ValidateInit ==
    /\ config \in ValidateConfigs
    /\ provider = [usage |-> NoUsage, bsOk |-> TRUE, bs |-> 2]
    /\ faults = NoFaults
    /\ modTime = [f \in Files |-> 7200]
    /\ size = [f \in Files |-> 1]
    /\ present = MixedTree
    /\ tree = MixedTree
    /\ pc = "validate"
    /\ targetSize = 0
    /\ blockSize = 0
    /\ taskChan = <<>>
    /\ taskWg = 0
    /\ firstErr = ""
    /\ timeSlots = NoSlots
    /\ slots = <<>>
    /\ threshold = ZeroTime
    /\ estimate = NoEstimate
    /\ deleter = NewDeleter
    /\ reapLeft = {}
    /\ deletedDirs = 0
    /\ cb = <<>>
    /\ report = ZeroReport
    /\ err = ""
    /\ WalkIdle

\* config.setDefaults() followed by config.validate()
Validate ==
    /\ pc = "validate"
    /\ config' = setDefaults(config)
    /\ err' = validate(setDefaults(config))
    /\ pc' = "validated"
    /\ UNCHANGED walkVars
    /\ UNCHANGED <<provider, faults, modTime, size, tree, present, targetSize,
                   blockSize, taskChan, taskWg, firstErr, timeSlots, slots,
                   threshold, estimate, deleter, reapLeft, deletedDirs, cb,
                   report>>

\* config.ActualWorkerCount() on the configuration setDefaults has filled in
CountWorkers ==
    /\ pc = "validated"
    /\ workerCount' = ActualWorkerCount(config)
    /\ pc' = "counted"
    /\ UNCHANGED <<workers, closer, errChan, visits, external, call>>
    /\ UNCHANGED <<config, provider, faults, modTime, size, tree, present,
                   targetSize, blockSize, taskChan, taskWg, firstErr,
                   timeSlots, slots, threshold, estimate, deleter, reapLeft,
                   deletedDirs, cb, report, err>>

\* the configuration is valid: scan creates its channels, starts workerCount
\* workers and seeds the root
StartWorkers ==
    /\ pc = "counted"
    /\ err = ""
    /\ workers' = [w \in 1 .. workerCount |->
                      [pc |-> "recv", stack |-> <<>>, err |-> ""]]
    /\ closer' = "wait"
    /\ taskWg' = 1
    /\ taskChan' = <<Root>>
    /\ pc' = "started"
    /\ UNCHANGED <<workerCount, errChan, visits, external, call>>
    /\ UNCHANGED <<config, provider, faults, modTime, size, tree, present,
                   targetSize, blockSize, firstErr, timeSlots, slots,
                   threshold, estimate, deleter, reapLeft, deletedDirs, cb,
                   report, err>>

ValidateNext == Validate \/ CountWorkers \/ StartWorkers

ValidateSpec == ValidateInit /\ [][ValidateNext]_vars

-----------------------------------------------------------------------------
(* calculateBlockSize on its own: any file size and any block size a         *)
(* provider may report, applied once and once more to its own result         *)

BlockInit ==
    /\ call \in [n : -2 .. MaxInt, u : -1 .. MaxInt, r : {0}, rr : {0}]
    /\ config = [MaxSize |-> Some(4), MaxUsagePercent |-> None,
                 MinFreeSpace |-> None, TimeWindow |-> DefaultTimeWindow,
                 RemoveEmptyDirs |-> TRUE, Concurrency |-> 0,
                 MaxConcurrency |-> 0]
    /\ provider = [usage |-> NoUsage, bsOk |-> TRUE, bs |-> 2]
    /\ faults = NoFaults
    /\ modTime = [f \in Files |-> 7200]
    /\ size = [f \in Files |-> 1]
    /\ present = MixedTree
    /\ tree = MixedTree
    /\ pc = "block"
    /\ targetSize = 0
    /\ blockSize = 0
    /\ taskChan = <<>>
    /\ taskWg = 0
    /\ firstErr = ""
    /\ timeSlots = NoSlots
    /\ slots = <<>>
    /\ threshold = ZeroTime
    /\ estimate = NoEstimate
    /\ deleter = NewDeleter
    /\ reapLeft = {}
    /\ deletedDirs = 0
    /\ cb = <<>>
    /\ report = ZeroReport
    /\ err = ""
    /\ workerCount = 0
    /\ workers = <<>>
    /\ closer = "idle"
    /\ errChan = <<>>
    /\ visits = [p \in Paths |-> 0]
    /\ external = {}

\* calculateBlockSize(n, u) and calculateBlockSize of that result
CalcBlock ==
    /\ pc = "block"
    /\ call' = [call EXCEPT
                   !.r = calculateBlockSize(call.n, call.u),
                   !.rr = calculateBlockSize(calculateBlockSize(call.n, call.u),
                                             call.u)]
    /\ pc' = "blocked"
    /\ UNCHANGED <<workerCount, workers, closer, errChan, visits, external>>
    /\ UNCHANGED <<config, provider, faults, modTime, size, tree, present,
                   targetSize, blockSize, taskChan, taskWg, firstErr,
                   timeSlots, slots, threshold, estimate, deleter, reapLeft,
                   deletedDirs, cb, report, err>>

BlockNext == CalcBlock

BlockSpec == BlockInit /\ [][BlockNext]_vars

-----------------------------------------------------------------------------
(* scanner.getTimeSlots on its own: the range loop over the slot map takes   *)
(* the slots in any order, then sortTimeSlots sorts what it collected        *)

\* the slot times of the histograms getTimeSlots is applied to
SlotTimes == {0, 7200, 14400, 21600}

\* the slot addFile has built from n files of the window starting at t
SlotOf(t, n) ==
    [time |-> t,
     files |-> [i \in 1 .. n |->
                  [path |-> IF i = 1 THEN "/p/r/f1" ELSE "/p/r/a/f2",
                   modTime |-> t + i, size |-> 1, blockSize |-> 2]],
     totalSize |-> n, totalBlockSize |-> 2 * n]

SortInit ==
    /\ \E D \in SUBSET SlotTimes : \E n \in 1 .. 2 :
          timeSlots = [t \in D |-> SlotOf(t, n)]
    /\ config = [MaxSize |-> Some(4), MaxUsagePercent |-> None,
                 MinFreeSpace |-> None, TimeWindow |-> 7200,
                 RemoveEmptyDirs |-> TRUE, Concurrency |-> 0,
                 MaxConcurrency |-> 0]
    /\ provider = [usage |-> NoUsage, bsOk |-> TRUE, bs |-> 2]
    /\ faults = NoFaults
    /\ modTime = [f \in Files |-> 7200]
    /\ size = [f \in Files |-> 1]
    /\ present = MixedTree
    /\ tree = MixedTree
    /\ pc = "range"
    /\ targetSize = 0
    /\ blockSize = 2
    /\ taskChan = <<>>
    /\ taskWg = 0
    /\ firstErr = ""
    /\ slots = <<>>
    /\ threshold = ZeroTime
    /\ estimate = NoEstimate
    /\ deleter = NewDeleter
    /\ reapLeft = {}
    /\ deletedDirs = 0
    /\ cb = <<>>
    /\ report = ZeroReport
    /\ err = ""
    /\ WalkIdle

\* the slots the range loop has not yet appended
NotAppended ==
    {t \in DOMAIN timeSlots : \A i \in 1 .. Len(slots) : slots[i].time # t}

\* one iteration of the range loop: the next slot in the map's order
RangeAppend ==
    /\ pc = "range"
    /\ \E t \in NotAppended : slots' = Append(slots, timeSlots[t])
    /\ UNCHANGED walkVars
    /\ UNCHANGED <<config, provider, faults, modTime, size, tree, present, pc,
                   targetSize, blockSize, taskChan, taskWg, firstErr,
                   timeSlots, threshold, estimate, deleter, reapLeft,
                   deletedDirs, cb, report, err>>

\* the loop is over: sortTimeSlots(slots); return slots
SortSlots ==
    /\ pc = "range"
    /\ NotAppended = {}
    /\ slots' = sortTimeSlots(slots)
    /\ pc' = "sorted"
    /\ UNCHANGED walkVars
    /\ UNCHANGED <<config, provider, faults, modTime, size, tree, present,
                   targetSize, blockSize, taskChan, taskWg, firstErr,
                   timeSlots, threshold, estimate, deleter, reapLeft,
                   deletedDirs, cb, report, err>>

SortNext == RangeAppend \/ SortSlots

SortSpec == SortInit /\ [][SortNext]_vars

-----------------------------------------------------------------------------
(* scanner.scan and deleter.deleteFiles with their goroutines: the workers,  *)
(* the goroutine that closes the task channel, the error collector, and     *)
(* another process that removes paths under the deleter's feet               *)

\* capacity of the task channel, scaled down from 100 so that the directories
\* of the model can fill it
WalkQueueCap == 1
\* the largest worker count
MaxWorkers == 2
\* how many paths the other process removes
MaxExternal == 1

Workers == 1 .. workerCount

\* the variables no goroutine of a phase writes
fixedVars == <<config, provider, faults, modTime, size, tree, targetSize,
               blockSize, slots, threshold, estimate, reapLeft, deletedDirs,
               report, call, workerCount>>

\* a call of processPath(path) about to run its first statement
Frame(path) == [path |-> path, step |-> "lstat", es |-> <<>>, i |-> 0]
Idle == [pc |-> "recv", stack |-> <<>>, err |-> ""]

Front(s) == SubSeq(s, 1, Len(s) - 1)
Top(w) == workers[w].stack[Len(workers[w].stack)]
Running(w, step) == workers[w].pc = "run" /\ Top(w).step = step

\* OnError as the collector of scan / deleteFiles calls it
ErrorEvent(type, e) == [ev |-> "OnError", type |-> type, path |-> "", error |-> e]

\* processPath returns e to the frames of stack: a caller in the queue-full
\* branch returns a non-nil error at once and goes on with its next entry
\* otherwise; the worker sends a non-nil error and marks the task done.
\* advance moves the loop of the top frame of stack to its next entry.
RECURSIVE unwind(_, _), advance(_)
unwind(stack, e) ==
    IF stack = <<>>
    THEN [pc |-> IF e # "" THEN "senderr" ELSE "done", stack |-> <<>>, err |-> e]
    ELSE IF e # "" THEN unwind(Front(stack), e)
    ELSE advance(stack)

advance(stack) ==
    LET f == stack[Len(stack)]
    IN IF f.i + 1 > Len(f.es) THEN unwind(Front(stack), "")
       ELSE [pc |-> "run",
             stack |-> [stack EXCEPT ![Len(stack)] =
                           [f EXCEPT !.i = f.i + 1, !.step = "loop"]],
             err |-> ""]

\* worker w after its processPath call on top returned e
Returned(w, e) == [workers EXCEPT ![w] = unwind(Front(workers[w].stack), e)]
\* worker w with the top frame at another statement
AtStep(w, step) ==
    [workers EXCEPT ![w].stack[Len(workers[w].stack)].step = step]

\* for task := range taskChan: a task is received
WorkerRecv(w) ==
    /\ pc \in {"scan", "delete"}
    /\ workers[w].pc = "recv"
    /\ taskChan # <<>>
    /\ taskChan' = Tail(taskChan)
    /\ workers' = [workers EXCEPT ![w] =
                      [pc |-> "run", stack |-> <<Frame(Head(taskChan))>>,
                       err |-> ""]]
    /\ visits' = [visits EXCEPT ![Head(taskChan)] = @ + 1]
    /\ UNCHANGED fixedVars
    /\ UNCHANGED <<present, pc, taskWg, firstErr, timeSlots, deleter, cb, err,
                   closer, errChan, external>>

\* for task := range taskChan: the channel is closed and drained
WorkerExit(w) ==
    /\ pc \in {"scan", "delete"}
    /\ workers[w].pc = "recv"
    /\ taskChan = <<>>
    /\ closer = "closed"
    /\ workers' = [workers EXCEPT ![w].pc = "exit"]
    /\ UNCHANGED fixedVars
    /\ UNCHANGED <<present, pc, taskChan, taskWg, firstErr, timeSlots, deleter,
                   cb, err, closer, errChan, visits, external>>

\* os.Lstat and the branch on the file mode
WorkerLstat(w) ==
    /\ pc \in {"scan", "delete"}
    /\ Running(w, "lstat")
    /\ LET path == Top(w).path
           e == Lstat(present, path)
       IN workers' =
             IF e = "ENOENT" /\ pc = "delete" THEN Returned(w, "")
             ELSE IF e # "" THEN Returned(w, e)
             ELSE IF LstatInfo(path).mode = "symlink" THEN Returned(w, "")
             ELSE IF LstatInfo(path).mode = "dir" THEN AtStep(w, "readdir")
             ELSE IF LstatInfo(path).mode = "regular"
             THEN IF pc = "scan" THEN AtStep(w, "addFile")
                  ELSE IF Before(LstatInfo(path).modTime, threshold)
                  THEN AtStep(w, "remove")
                  ELSE Returned(w, "")
             ELSE Returned(w, "")
    /\ UNCHANGED fixedVars
    /\ UNCHANGED <<present, pc, taskChan, taskWg, firstErr, timeSlots, deleter,
                   cb, err, closer, errChan, visits, external>>

\* os.ReadDir
WorkerReadDir(w) ==
    /\ pc \in {"scan", "delete"}
    /\ Running(w, "readdir")
    /\ LET path == Top(w).path
           e == ReadDir(present, path)
           es == Entries(present, path)
       IN workers' =
             IF e # "" THEN Returned(w, e)
             ELSE [workers EXCEPT ![w] =
                      advance([workers[w].stack EXCEPT
                                  ![Len(workers[w].stack)].es = es])]
    /\ UNCHANGED fixedVars
    /\ UNCHANGED <<present, pc, taskChan, taskWg, firstErr, timeSlots, deleter,
                   cb, err, closer, errChan, visits, external>>

\* a loop that goes to the select without taskWg.Add(1)
WorkerAddOmitted(w) ==
    /\ pc \in {"scan", "delete"}
    /\ Running(w, "loop")
    /\ taskWg' = taskWg
    /\ workers' = AtStep(w, "select")
    /\ UNCHANGED fixedVars
    /\ UNCHANGED <<present, pc, taskChan, firstErr, timeSlots, deleter, cb, err,
                   closer, errChan, visits, external>>

\* taskWg.Add(1) for the entry the loop is at
WorkerAdd(w) ==
    /\ pc \in {"scan", "delete"}
    /\ Running(w, "loop")
    /\ taskWg' = taskWg + 1
    /\ workers' = AtStep(w, "select")
    /\ UNCHANGED fixedVars
    /\ UNCHANGED <<present, pc, taskChan, firstErr, timeSlots, deleter, cb, err,
                   closer, errChan, visits, external>>

\* a send that waits for room in the channel
WorkerSelectBlocking(w) ==
    /\ pc \in {"scan", "delete"}
    /\ Running(w, "select")
    /\ Len(taskChan) < WalkQueueCap
    /\ taskChan' = Append(taskChan, Top(w).es[Top(w).i])
    /\ workers' = [workers EXCEPT ![w] = advance(workers[w].stack)]
    /\ UNCHANGED fixedVars
    /\ UNCHANGED <<present, pc, taskWg, firstErr, timeSlots, deleter, cb, err,
                   closer, errChan, visits, external>>

\* select: send the entry if the channel has room, take the default otherwise
WorkerSelect(w) ==
    /\ pc \in {"scan", "delete"}
    /\ Running(w, "select")
    /\ IF Len(taskChan) < WalkQueueCap
       THEN /\ taskChan' = Append(taskChan, Top(w).es[Top(w).i])
            /\ workers' = [workers EXCEPT ![w] = advance(workers[w].stack)]
       ELSE /\ taskChan' = taskChan
            /\ workers' = AtStep(w, "default")
    /\ UNCHANGED fixedVars
    /\ UNCHANGED <<present, pc, taskWg, firstErr, timeSlots, deleter, cb, err,
                   closer, errChan, visits, external>>

\* a default branch that gives the entry up when the channel is full
WorkerDefaultSkips(w) ==
    /\ pc \in {"scan", "delete"}
    /\ Running(w, "default")
    /\ taskWg' = taskWg - 1
    /\ workers' = [workers EXCEPT ![w] = advance(workers[w].stack)]
    /\ visits' = visits
    /\ UNCHANGED fixedVars
    /\ UNCHANGED <<present, pc, taskChan, firstErr, timeSlots, deleter, cb, err,
                   closer, errChan, external>>

\* default: taskWg.Done() and the recursive call of processPath
WorkerDefault(w) ==
    /\ pc \in {"scan", "delete"}
    /\ Running(w, "default")
    /\ taskWg' = taskWg - 1
    /\ workers' = [workers EXCEPT ![w].stack =
                      Append(AtStep(w, "call")[w].stack,
                             Frame(Top(w).es[Top(w).i]))]
    /\ visits' = [visits EXCEPT ![Top(w).es[Top(w).i]] = @ + 1]
    /\ UNCHANGED fixedVars
    /\ UNCHANGED <<present, pc, taskChan, firstErr, timeSlots, deleter, cb, err,
                   closer, errChan, external>>

\* scanner.processPath: the regular file goes into the histogram
WorkerAddFile(w) ==
    /\ pc = "scan"
    /\ Running(w, "addFile")
    /\ LET path == Top(w).path
       IN timeSlots' = addFile(timeSlots,
              [path |-> path, size |-> LstatInfo(path).size,
               blockSize |-> calculateBlockSize(LstatInfo(path).size, blockSize),
               modTime |-> LstatInfo(path).modTime])
    /\ workers' = Returned(w, "")
    /\ UNCHANGED fixedVars
    /\ UNCHANGED <<present, pc, taskChan, taskWg, firstErr, deleter, cb, err,
                   closer, errChan, visits, external>>

\* a deleter that counts the file whether or not os.Remove succeeded
WorkerRemoveCountsFailures(w) ==
    /\ pc = "delete"
    /\ Running(w, "remove")
    /\ workers' = AtStep(w, "track")
    /\ present' = present \ (IF Remove(present, Top(w).path) = ""
                              THEN {Top(w).path} ELSE {})
    /\ UNCHANGED fixedVars
    /\ UNCHANGED <<pc, taskChan, taskWg, firstErr, timeSlots, deleter, cb, err,
                   closer, errChan, visits, external>>

\* deleter.processPath: os.Remove
WorkerRemove(w) ==
    /\ pc = "delete"
    /\ Running(w, "remove")
    /\ LET path == Top(w).path
           e == Remove(present, path)
       IN IF e # ""
          THEN /\ workers' = Returned(w, e)
               /\ present' = present
          ELSE /\ workers' = AtStep(w, "track")
               /\ present' = present \ {path}
    /\ UNCHANGED fixedVars
    /\ UNCHANGED <<pc, taskChan, taskWg, firstErr, timeSlots, deleter, cb, err,
                   closer, errChan, visits, external>>

\* deleter.processPath: the counters, the deleted-directory set, OnFileDeleted
WorkerTrack(w) ==
    /\ pc = "delete"
    /\ Running(w, "track")
    /\ LET path == Top(w).path
       IN /\ deleter' = [files |-> deleter.files + 1,
                         size |-> deleter.size + LstatInfo(path).size,
                         blocks |-> deleter.blocks
                             + calculateBlockSize(LstatInfo(path).size, blockSize),
                         dirs |-> deleter.dirs \cup {Dir(path)}]
          /\ cb' = Append(cb, Event("OnFileDeleted", "", path))
    /\ workers' = Returned(w, "")
    /\ UNCHANGED fixedVars
    /\ UNCHANGED <<present, pc, taskChan, taskWg, firstErr, timeSlots, err,
                   closer, errChan, visits, external>>

\* errChan <- err, which waits while the channel is full
WorkerSendErr(w) ==
    /\ pc \in {"scan", "delete"}
    /\ workers[w].pc = "senderr"
    /\ Len(errChan) < workerCount
    /\ errChan' = Append(errChan, workers[w].err)
    /\ workers' = [workers EXCEPT ![w].pc = "done"]
    /\ UNCHANGED fixedVars
    /\ UNCHANGED <<present, pc, taskChan, taskWg, firstErr, timeSlots, deleter,
                   cb, err, closer, visits, external>>

\* taskWg.Done() after processPath
WorkerDone(w) ==
    /\ pc \in {"scan", "delete"}
    /\ workers[w].pc = "done"
    /\ taskWg' = taskWg - 1
    /\ workers' = [workers EXCEPT ![w] = Idle]
    /\ UNCHANGED fixedVars
    /\ UNCHANGED <<present, pc, taskChan, firstErr, timeSlots, deleter, cb, err,
                   closer, errChan, visits, external>>

\* taskWg.Wait() returns
CloserWake ==
    /\ pc \in {"scan", "delete"}
    /\ closer = "wait"
    /\ taskWg = 0
    /\ closer' = "woken"
    /\ UNCHANGED fixedVars
    /\ UNCHANGED <<present, pc, taskChan, taskWg, firstErr, timeSlots, deleter,
                   cb, err, workers, errChan, visits, external>>

\* close(taskChan)
CloserClose ==
    /\ pc \in {"scan", "delete"}
    /\ closer = "woken"
    /\ closer' = "closed"
    /\ UNCHANGED fixedVars
    /\ UNCHANGED <<present, pc, taskChan, taskWg, firstErr, timeSlots, deleter,
                   cb, err, workers, errChan, visits, external>>

\* a collector without the firstErr == nil test: the last error is kept
CollectErrorKeepsLast ==
    /\ pc \in {"scan", "delete"}
    /\ errChan # <<>>
    /\ errChan' = Tail(errChan)
    /\ firstErr' = Head(errChan)
    /\ cb' = Append(cb, ErrorEvent(pc, Head(errChan)))
    /\ UNCHANGED fixedVars
    /\ UNCHANGED <<present, pc, taskChan, taskWg, timeSlots, deleter, err,
                   workers, closer, visits, external>>

\* for err := range errChan: one error is collected and handed to OnError
CollectError ==
    /\ pc \in {"scan", "delete"}
    /\ errChan # <<>>
    /\ errChan' = Tail(errChan)
    /\ firstErr' = IF firstErr = "" THEN Head(errChan) ELSE firstErr
    /\ cb' = Append(cb, ErrorEvent(pc, Head(errChan)))
    /\ UNCHANGED fixedVars
    /\ UNCHANGED <<present, pc, taskChan, taskWg, timeSlots, deleter, err,
                   workers, closer, visits, external>>

\* a phase that returns once the task channel is closed and the error
\* channel is empty, without waiting for the workers
PhaseReturnWithoutWait ==
    /\ pc \in {"scan", "delete"}
    /\ closer = "closed"
    /\ errChan = <<>>
    /\ pc' = IF pc = "scan" THEN "scanned" ELSE "deleted"
    /\ err' = firstErr
    /\ UNCHANGED fixedVars
    /\ UNCHANGED <<present, taskChan, taskWg, firstErr, timeSlots, deleter, cb,
                   workers, closer, errChan, visits, external>>

\* every worker has exited, errChan is closed and drained: the phase returns
\* firstErr, which CleanBackup returns when it is not nil
PhaseReturn ==
    /\ pc \in {"scan", "delete"}
    /\ \A w \in Workers : workers[w].pc = "exit"
    /\ errChan = <<>>
    /\ pc' = IF pc = "scan" THEN "scanned" ELSE "deleted"
    /\ err' = firstErr
    /\ UNCHANGED fixedVars
    /\ UNCHANGED <<present, taskChan, taskWg, firstErr, timeSlots, deleter, cb,
                   workers, closer, errChan, visits, external>>

\* another process removes a regular file or an empty directory below the root
ExternalRemove ==
    /\ pc = "delete"
    /\ Cardinality(external) < MaxExternal
    /\ \E p \in present \ {"/p", Root} :
          /\ Entries(present, p) = <<>>
          /\ present' = present \ {p}
          /\ external' = external \cup {p}
    /\ UNCHANGED fixedVars
    /\ UNCHANGED <<pc, taskChan, taskWg, firstErr, timeSlots, deleter, cb, err,
                   workers, closer, errChan, visits>>

WalkNext ==
    \/ \E w \in Workers :
          \/ WorkerRecv(w)
          \/ WorkerExit(w)
          \/ WorkerLstat(w)
          \/ WorkerReadDir(w)
          \/ WorkerAdd(w)
          \/ WorkerSelect(w)
          \/ WorkerDefault(w)
          \/ WorkerAddFile(w)
          \/ WorkerRemove(w)
          \/ WorkerTrack(w)
          \/ WorkerSendErr(w)
          \/ WorkerDone(w)
    \/ CloserWake
    \/ CloserClose
    \/ CollectError
    \/ PhaseReturn
    \/ ExternalRemove

\* the phases CleanBackup starts: the workers wait, the root is in the channel
WalkFaults ==
    {NoFaults,
     [NoFaults EXCEPT !.readDir = {"/p/r/a"}],
     [NoFaults EXCEPT !.lstat = {"/p/r/f1"}],
     [NoFaults EXCEPT !.remove = {"/p/r/f1"}]}

WalkInit ==
    /\ pc \in {"scan", "delete"}
    /\ workerCount \in 1 .. MaxWorkers
    /\ config = [MaxSize |-> None, MaxUsagePercent |-> None,
                 MinFreeSpace |-> Some(14), TimeWindow |-> 7200,
                 RemoveEmptyDirs |-> TRUE, Concurrency |-> workerCount,
                 MaxConcurrency |-> DefaultMaxConcurrency]
    /\ provider = [usage |-> Usage(20, 8), bsOk |-> TRUE, bs |-> 2]
    /\ \/ /\ present = MixedTree
          /\ faults \in WalkFaults
       \/ /\ present \in ChainTrees
          /\ faults = NoFaults
       \/ /\ present = ChainTree \cup {"/p/r/a/f2", "/p/r/f1"}
          /\ faults = [NoFaults EXCEPT !.readDir = {"/p/r/a/b"}]
    /\ \E t \in {7200, 14400} :
          modTime = [f \in Files |-> IF f = "/p/r/f1" THEN t
                                     ELSE IF f = "/p/r/a/f2" THEN 7201
                                     ELSE 7200]
    /\ size = [f \in Files |-> IF f = "/p/r/f1" THEN 3 ELSE 1]
    /\ tree = present
    /\ targetSize = 2
    /\ blockSize = 2
    /\ taskChan = <<Root>>
    /\ taskWg = 1
    /\ firstErr = ""
    /\ timeSlots = NoSlots
    /\ slots = <<>>
    /\ threshold = IF pc = "scan" THEN ZeroTime ELSE 7202
    /\ estimate = NoEstimate
    /\ deleter = NewDeleter
    /\ reapLeft = {}
    /\ deletedDirs = 0
    /\ cb = <<>>
    /\ report = ZeroReport
    /\ err = ""
    /\ workers = [w \in 1 .. workerCount |-> Idle]
    /\ closer = "wait"
    /\ errChan = <<>>
    /\ visits = [p \in Paths |-> 0]
    /\ external = {}
    /\ call = NoCall

WalkSpec == WalkInit /\ [][WalkNext]_vars

\* a goroutine that can take a step is scheduled in the end; the other
\* process owes nothing
WorkerStep(w) ==
    /\ w \in Workers
    /\ \/ WorkerRecv(w)
       \/ WorkerExit(w)
       \/ WorkerLstat(w)
       \/ WorkerReadDir(w)
       \/ WorkerAdd(w)
       \/ WorkerSelect(w)
       \/ WorkerDefault(w)
       \/ WorkerAddFile(w)
       \/ WorkerRemove(w)
       \/ WorkerTrack(w)
       \/ WorkerSendErr(w)
       \/ WorkerDone(w)

WalkFairness ==
    /\ \A w \in 1 .. MaxWorkers : WF_vars(WorkerStep(w))
    /\ WF_vars(CloserWake)
    /\ WF_vars(CloserClose)
    /\ WF_vars(CollectError)
    /\ WF_vars(PhaseReturn)

WalkLiveSpec == WalkSpec /\ WalkFairness

-----------------------------------------------------------------------------
(* CleanBackup with its goroutines: the scan pool, the delete pool and the   *)
(* reaper one after the other, from the call of scanner.scan to the return  *)

PoolInit ==
    /\ pc = "scan"
    /\ workerCount \in 1 .. MaxWorkers
    /\ config = [MaxSize |-> None, MaxUsagePercent |-> None,
                 MinFreeSpace |-> Some(14), TimeWindow |-> 7200,
                 RemoveEmptyDirs |-> TRUE, Concurrency |-> workerCount,
                 MaxConcurrency |-> DefaultMaxConcurrency]
    /\ provider = [usage |-> Usage(20, 8), bsOk |-> TRUE, bs |-> 2]
    /\ \/ /\ present = MixedTree
          /\ faults \in {NoFaults, [NoFaults EXCEPT !.remove = {"/p/r/f1"}]}
       \/ /\ present \in ChainTrees \cup (BareTrees \ {{"/p"}})
          /\ faults = NoFaults
    /\ \E t \in {7200, 14400} :
          modTime = [f \in Files |-> IF f = "/p/r/f1" THEN t
                                     ELSE IF f = "/p/r/a/f2" THEN 7201
                                     ELSE 7200]
    /\ size = [f \in Files |-> 1]
    /\ tree = present
    /\ targetSize = budgetOf(config, provider.usage)
    /\ blockSize = provider.bs
    /\ taskChan = <<Root>>
    /\ taskWg = 1
    /\ firstErr = ""
    /\ timeSlots = NoSlots
    /\ slots = <<>>
    /\ threshold = ZeroTime
    /\ estimate = NoEstimate
    /\ deleter = NewDeleter
    /\ reapLeft = {}
    /\ deletedDirs = 0
    /\ cb = <<Event("OnStart", "", Root)>>
    /\ report = ZeroReport
    /\ err = ""
    /\ workers = [w \in 1 .. workerCount |-> Idle]
    /\ closer = "wait"
    /\ errChan = <<>>
    /\ visits = [p \in Paths |-> 0]
    /\ external = {}
    /\ call = NoCall

\* scanner.scan or deleteFiles returned an error: CleanBackup returns it
PoolPhaseFailed ==
    /\ pc \in {"scanned", "deleted"}
    /\ err # ""
    /\ pc' = "done"
    /\ report' = ZeroReport
    /\ UNCHANGED walkVars
    /\ UNCHANGED <<config, provider, faults, modTime, size, tree, present,
                   targetSize, blockSize, taskChan, taskWg, firstErr,
                   timeSlots, slots, threshold, estimate, deleter, reapLeft,
                   deletedDirs, cb, err>>

\* scanner.scan returned nil and getTimeSlots is empty
PoolScanEmpty ==
    /\ pc = "scanned"
    /\ err = ""
    /\ DOMAIN timeSlots = {}
    /\ Return(ZeroReport, "")
    /\ UNCHANGED walkVars
    /\ UNCHANGED <<config, provider, faults, modTime, size, tree, present,
                   targetSize, blockSize, taskChan, taskWg, firstErr,
                   timeSlots, slots, threshold, estimate, deleter, reapLeft,
                   deletedDirs, cb>>

\* scanner.scan returned nil: the threshold, OnScanComplete, OnDeleteStart,
\* then deleteFiles starts its workers and seeds the root
PoolScanComplete ==
    /\ pc = "scanned"
    /\ err = ""
    /\ DOMAIN timeSlots # {}
    /\ \E o \in SlotOrders(timeSlots) :
          LET ss == sortTimeSlots([i \in DOMAIN o |-> timeSlots[o[i]]])
              th == solve(ss)
          IN /\ slots' = ss
             /\ threshold' = th.threshold
             /\ estimate' = [files |-> th.files, size |-> th.size]
    /\ cb' = cb \o <<Event("OnScanComplete", "", ""), Event("OnDeleteStart", "", "")>>
    /\ deleter' = NewDeleter
    /\ workers' = [w \in Workers |-> Idle]
    /\ closer' = "wait"
    /\ errChan' = <<>>
    /\ visits' = [p \in Paths |-> 0]
    /\ taskWg' = 1
    /\ taskChan' = <<Root>>
    /\ pc' = "delete"
    /\ UNCHANGED <<config, provider, faults, modTime, size, tree, present,
                   targetSize, blockSize, firstErr, timeSlots, reapLeft,
                   deletedDirs, report, err, workerCount, external, call>>

\* deleteFiles returned nil: deleteEmptyDirs takes the deleted-directory set
PoolDeleteComplete ==
    /\ pc = "deleted"
    /\ err = ""
    /\ reapLeft' = IF config.RemoveEmptyDirs THEN deleter.dirs ELSE {}
    /\ deletedDirs' = 0
    /\ pc' = "reap"
    /\ UNCHANGED walkVars
    /\ UNCHANGED <<config, provider, faults, modTime, size, tree, present,
                   targetSize, blockSize, taskChan, taskWg, firstErr,
                   timeSlots, slots, threshold, estimate, deleter, cb,
                   report, err>>

PoolNext ==
    \/ WalkNext
    \/ PoolPhaseFailed
    \/ PoolScanEmpty
    \/ PoolScanComplete
    \/ PoolDeleteComplete
    \/ ReapDir
    \/ Complete

PoolSpec == PoolInit /\ [][PoolNext]_vars

-----------------------------------------------------------------------------
(* Vocabulary of the properties *)

FilesAtStart == Files \cap tree
Removed(f) == f \in tree /\ f \notin present
ErrorsOfType(t) == {i \in DOMAIN cb : cb[i].ev = "OnError" /\ cb[i].type = t}
NoEntryError == \A i \in DOMAIN cb : cb[i].ev # "OnError"
HasEvent(e) == \E i \in DOMAIN cb : cb[i].ev = e
MaxOf(S) == CHOOSE x \in S : \A y \in S : y <= x

RECURSIVE BlockSumOf(_)
BlockSumOf(S) ==
    IF S = {} THEN 0
    ELSE LET f == CHOOSE x \in S : TRUE
         IN calculateBlockSize(size[f], blockSize) + BlockSumOf(S \ {f})

\* a complete, error-free run of the budget variant / of the MaxSize-only mode
BudgetRunDone ==
    pc = "done" /\ err = "" /\ targetSize > 0 /\ slots # <<>> /\ NoEntryError
AbsoluteRunDone ==
    pc = "done" /\ err = "" /\ targetSize = -1 /\ slots # <<>> /\ NoEntryError
OverBudgetDone == BudgetRunDone /\ sumBlock(slots, 1) < targetSize
UsageUnavailableDone ==
    pc = "done" /\ ~provider.usage.ok /\ validate(config) = "" /\ Root \in tree

-----------------------------------------------------------------------------
(* Properties *)

\* C1: after a run without per-entry errors a regular file has been removed
\* iff its modification time is strictly before the reported TimeThreshold;
\* so no file is removed while a strictly older one survives.
C1_RemovedIffBeforeCutoff ==
    (pc = "done" /\ NoEntryError) =>
        /\ \A f \in FilesAtStart : Removed(f) <=> modTime[f] < report.TimeThreshold
        /\ \A f, g \in FilesAtStart :
              (Removed(f) /\ modTime[g] < modTime[f]) => Removed(g)

C1_Witness ==
    /\ pc = "done" /\ NoEntryError
    /\ \E f, g \in FilesAtStart :
          /\ Removed(f) /\ ~Removed(g)
          /\ modTime[f] < report.TimeThreshold
          /\ modTime[g] >= report.TimeThreshold

\* C2: budget variant: when the accumulation stops at slot s (accumulated
\* block bytes >= budget), every file of s and of the older slots is deleted
\* and the block bytes deleted are >= the budget.
C2_StopSlotFullyDeleted ==
    (BudgetRunDone /\ estimate.size >= targetSize) =>
        /\ \A f \in FilesAtStart :
              Truncate(modTime[f], config.TimeWindow) <= threshold - Second
                  => Removed(f)
        /\ report.DeletedBlockSize >= targetSize

\* C3: MaxSize-only mode: after CleanBackup returns without error the block
\* sizes of the regular files left under the root sum to <= MaxSize.
C3_AbsoluteModeUnderMaxSize ==
    (pc = "done" /\ err = "" /\ targetSize = -1) =>
        BlockSumOf(Files \cap present) <= config.MaxSize.v

\* C4: a per-entry failure in the scan phase is reported to OnError (Scan)
\* and CleanBackup still solves the threshold, deletes and reaps.
C4_ScanErrorNotFatal ==
    (pc = "done" /\ ErrorsOfType("scan") # {} /\ DOMAIN timeSlots # {}) =>
        /\ HasEvent("OnScanComplete")
        /\ HasEvent("OnDeleteStart")
        /\ HasEvent("OnComplete")

\* C5: when a remove fails in the delete phase it is reported to OnError
\* (Delete), the reaper and OnComplete still run and the report carries the
\* deleter's counters.
C5_DeleteErrorNotFatal ==
    (pc = "done" /\ ErrorsOfType("delete") # {}) =>
        /\ HasEvent("OnComplete")
        /\ report.DeletedFiles = deleter.files
        /\ report.DeletedSize = deleter.size
        /\ report.DeletedBlockSize = deleter.blocks

\* C6 as stated: when GetDiskUsage fails CleanBackup returns an error without
\* scanning whenever MaxUsagePercent or MinFreeSpace is set, and enters the
\* MaxSize-only mode only when MaxSize is the sole constraint.
C6_FailsUnlessMaxSizeAlone ==
    UsageUnavailableDone =>
        IF config.MaxUsagePercent.set \/ config.MinFreeSpace.set
        THEN err # "" /\ cb = <<>> /\ present = tree /\ DOMAIN timeSlots = {}
        ELSE targetSize = -1

\* C6 as amended: when GetDiskUsage fails CleanBackup returns that error
\* without scanning or deleting iff MaxSize is not set; whenever MaxSize is
\* set it enters the MaxSize-only mode, whatever else is set.
C6_FailsIffMaxSizeUnset ==
    UsageUnavailableDone =>
        IF ~config.MaxSize.set
        THEN err = "DiskUsageError" /\ cb = <<>> /\ present = tree
             /\ DOMAIN timeSlots = {}
        ELSE targetSize = -1 /\ err # "DiskUsageError" /\ HasEvent("OnStart")

C6_Witness ==
    /\ UsageUnavailableDone
    /\ config.MaxSize.set /\ config.MaxUsagePercent.set /\ config.MinFreeSpace.set
    /\ targetSize = -1
    /\ \E f \in FilesAtStart : Removed(f)

C9_AbsoluteCutoffIsSlotPlusWindow ==
    AbsoluteRunDone =>
        LET total == sumBlock(slots, 1)
            M == config.MaxSize.v
            k == CHOOSE i \in 1 .. Len(slots) :
                    /\ sumBlock(slots, i + 1) <= M
                    /\ \A j \in 1 .. i - 1 : sumBlock(slots, j + 1) > M
        IN IF total <= M
           THEN /\ threshold = ZeroTime
                /\ estimate = NoEstimate
                /\ \A f \in FilesAtStart : ~Removed(f)
           ELSE /\ threshold = slots[k].time + config.TimeWindow
                /\ \A f \in FilesAtStart :
                      Removed(f) =>
                          Truncate(modTime[f], config.TimeWindow) <= slots[k].time

\* the candidates of the three constraints; the percent candidate as the
\* claim states it and as calculateTargetSize computes it
maxSizeCandidate ==
    IF config.MaxSize.set /\ provider.usage.Used > config.MaxSize.v
    THEN provider.usage.Used - config.MaxSize.v ELSE 0
percentFloor == (provider.usage.Total * config.MaxUsagePercent.v) \div 100
percentCandidateStated ==
    IF config.MaxUsagePercent.set /\ provider.usage.Used > percentFloor
    THEN provider.usage.Used - percentFloor ELSE 0
percentProduct ==
    float64Product(provider.usage.Total, config.MaxUsagePercent.v)
percentCandidateGuarded ==
    IF config.MaxUsagePercent.set
       /\ provider.usage.UsedPercent > config.MaxUsagePercent.v
       /\ provider.usage.Used > percentProduct
    THEN provider.usage.Used - percentProduct ELSE 0
minFreeCandidate ==
    IF config.MinFreeSpace.set /\ provider.usage.Free < config.MinFreeSpace.v
    THEN config.MinFreeSpace.v - provider.usage.Free ELSE 0

maxSizeHolds ==
    config.MaxSize.set => provider.usage.Used <= config.MaxSize.v
minFreeHolds ==
    config.MinFreeSpace.set => provider.usage.Free >= config.MinFreeSpace.v
percentHoldsStated ==
    config.MaxUsagePercent.set => provider.usage.Used <= percentFloor
percentHoldsReported ==
    config.MaxUsagePercent.set =>
        \/ provider.usage.UsedPercent <= config.MaxUsagePercent.v
        \/ provider.usage.Used <= percentProduct

\* C11 as stated: calculateTargetSize returns a value >= 0, and 0 exactly
\* when used <= MaxSize, used <= floor(total * percent / 100) and
\* free >= MinFreeSpace hold for the active constraints.
C11_ZeroIffConstraintsHold ==
    pc = "targeted" =>
        /\ targetSize >= 0
        /\ targetSize = 0 <=> (maxSizeHolds /\ percentHoldsStated /\ minFreeHolds)

\* C11 as amended: calculateTargetSize returns a value >= 0, and 0 exactly
\* when used <= MaxSize, free >= MinFreeSpace and the percent constraint
\* holds as reported: UsedPercent <= MaxUsagePercent, or used <=
\* uint64(float64(total) * (percent / 100)).
C11_ZeroIffConstraintsHoldAsReported ==
    pc = "targeted" =>
        /\ targetSize >= 0
        /\ targetSize = 0 <=> (maxSizeHolds /\ percentHoldsReported /\ minFreeHolds)

\* all three constraints active and holding, the percent one by the reported
\* UsedPercent alone
C11_Witness ==
    /\ pc = "targeted"
    /\ config.MaxSize.set /\ config.MaxUsagePercent.set /\ config.MinFreeSpace.set
    /\ provider.usage.Used > 0 /\ provider.usage.Used <= config.MaxSize.v
    /\ provider.usage.Free >= config.MinFreeSpace.v
    /\ provider.usage.UsedPercent <= config.MaxUsagePercent.v
    /\ provider.usage.Used > percentFloor
    /\ targetSize = 0

\* block total and number of files of the k oldest slots
RECURSIVE prefixBlock(_)
prefixBlock(k) ==
    IF k = 0 THEN 0 ELSE prefixBlock(k - 1) + slots[k].totalBlockSize
RECURSIVE prefixFiles(_)
prefixFiles(k) ==
    IF k = 0 THEN 0 ELSE prefixFiles(k - 1) + Len(slots[k].files)

\* calculateThreshold has returned: budget variant, at least one slot
BudgetSolved ==
    pc \in {"delete", "reap", "done"} /\ targetSize > 0 /\ slots # <<>>

\* C12: calculateThreshold on the sorted slots with budget B > 0 returns an
\* accumulated size A >= B unless all slots together are below B; when
\* A >= B the loop stopped at the first slot that reaches B, and the file
\* count returned is that of the slots accumulated.
C12_StopsAtFirstSlotReachingBudget ==
    BudgetSolved =>
        /\ \A j \in 1 .. Len(slots) - 1 : slots[j].time < slots[j + 1].time
        /\ estimate.size >= targetSize \/ sumBlock(slots, 1) < targetSize
        /\ estimate.size >= targetSize =>
              \E k \in 1 .. Len(slots) :
                  /\ estimate.size = prefixBlock(k)
                  /\ estimate.size - slots[k].totalBlockSize < targetSize
                  /\ estimate.files = prefixFiles(k)
        /\ estimate.size < targetSize =>
              /\ estimate.size = prefixBlock(Len(slots))
              /\ estimate.files = prefixFiles(Len(slots))

\* the loop stops at the older of two slots
C12_Witness ==
    /\ BudgetSolved
    /\ Len(slots) = 2
    /\ estimate.size >= targetSize
    /\ estimate.size = slots[1].totalBlockSize
    /\ estimate.files = Len(slots[1].files)

\* C13: a symbolic link is never followed, never added to the histogram or
\* counted in ScannedFiles, and never removed, however old the link or its
\* target is.
C13_SymlinksUntouched ==
    \A l \in Links \cap tree :
        /\ l \in present
        /\ \A t \in DOMAIN timeSlots :
              \A i \in 1 .. Len(timeSlots[t].files) :
                  timeSlots[t].files[i].path # l
        /\ getTotalFiles <= Cardinality(FilesAtStart)
        /\ report.ScannedFiles <= Cardinality(FilesAtStart)
        /\ \A i \in DOMAIN cb : cb[i].path # l

\* a run that removed every regular file, the link's target among them,
\* with a cutoff after the link's own modification time
C13_Witness ==
    /\ pc = "done" /\ err = ""
    /\ \E l \in Links \cap tree :
          /\ l \in present
          /\ Removed(LinkTarget(l))
          /\ LstatInfo(l).modTime < report.TimeThreshold
    /\ \A f \in FilesAtStart : Removed(f)
    /\ report.ScannedFiles = Cardinality(FilesAtStart)

\* positions of the callback e in the log of callbacks
At(e) == {i \in DOMAIN cb : cb[i].ev = e}
AtMostOnce(e) == Cardinality(At(e)) <= 1
\* e2 is only ever called after a call of e1
Follows(e2, e1) == \A i \in At(e2) : \E j \in At(e1) : j < i
\* no call of e1 comes after a call of e2
AllBefore(e1, e2) == \A i \in At(e1), j \in At(e2) : i < j

\* C14: OnStart, OnScanComplete, OnDeleteStart and OnComplete fire at most
\* once each and in that order; every OnFileDeleted comes after OnDeleteStart
\* and before every OnDirDeleted, and all of both come before OnComplete.
C14_CallbackOrder ==
    /\ AtMostOnce("OnStart") /\ AtMostOnce("OnScanComplete")
    /\ AtMostOnce("OnDeleteStart") /\ AtMostOnce("OnComplete")
    /\ Follows("OnScanComplete", "OnStart")
    /\ Follows("OnDeleteStart", "OnScanComplete")
    /\ Follows("OnComplete", "OnDeleteStart")
    /\ Follows("OnFileDeleted", "OnDeleteStart")
    /\ Follows("OnDirDeleted", "OnDeleteStart")
    /\ AllBefore("OnFileDeleted", "OnDirDeleted")
    /\ AllBefore("OnFileDeleted", "OnComplete")
    /\ AllBefore("OnDirDeleted", "OnComplete")

\* a complete run that deleted files and then directories
C14_Witness ==
    /\ pc = "done"
    /\ Cardinality(At("OnFileDeleted")) >= 2
    /\ At("OnDirDeleted") # {}
    /\ At("OnComplete") # {}
    /\ At("OnStart") = {1}

\* the reaper has visited every directory of the set and none of its
\* removals failed
ReaperDone ==
    /\ pc = "done" /\ HasEvent("OnComplete")
    /\ config.RemoveEmptyDirs
    /\ ErrorsOfType("dir") = {}

\* the entry e was removed before the directory d was
RemovedBefore(e, d) ==
    \E i, j \in DOMAIN cb :
        /\ i < j
        /\ cb[i].ev \in {"OnFileDeleted", "OnDirDeleted"} /\ cb[i].path = e
        /\ cb[j].ev = "OnDirDeleted" /\ cb[j].path = d

\* C15: after the reaper finishes without removal errors every directory of
\* the deleted-directory set has been removed or still holds an entry, in
\* whatever order the set is iterated; and a directory is removed only once
\* every entry it held has been removed.
C15_ReaperLeavesNoEmptyDir ==
    /\ ReaperDone =>
          \A d \in deleter.dirs :
              d \notin present \/ Entries(present, d) # <<>>
    /\ \A d \in Dirs \cap tree :
          d \notin present =>
              \A e \in tree : Dir(e) = d => e \notin present /\ RemovedBefore(e, d)

\* two directories in the set: one removed, one kept because of an entry
C15_Witness ==
    /\ ReaperDone
    /\ \E d1, d2 \in deleter.dirs :
          /\ d1 \notin present
          /\ d2 \in present /\ Entries(present, d2) # <<>>

\* the directories OnDirDeleted was called for
DirsReported == {cb[i].path : i \in At("OnDirDeleted")}

\* C16: for root/a/b/c/file with the file before the cutoff and nothing else
\* in a, b and c, a run with RemoveEmptyDirs removes a/b/c, a/b and a
\* bottom-up, calls OnDirDeleted for exactly those three and reports
\* DeletedDirs = 3.
C16_ChainOfThreeRemoved ==
    (ReaperDone /\ tree \in ChainTrees /\ Removed("/p/r/a/b/c/f3")) =>
        /\ {"/p/r/a/b/c", "/p/r/a/b", "/p/r/a"} \cap present = {}
        /\ RemovedBefore("/p/r/a/b/c", "/p/r/a/b")
        /\ RemovedBefore("/p/r/a/b", "/p/r/a")
        /\ DirsReported = {"/p/r/a/b/c", "/p/r/a/b", "/p/r/a"}
        /\ report.DeletedDirs = 3

\* CleanBackup has returned for a valid configuration and an existing root
\* whose reported usage asks for no deletion
ZeroBudgetDone ==
    /\ pc = "done"
    /\ validate(config) = "" /\ Root \in tree
    /\ provider.usage.ok
    /\ maxSizeCandidate = 0 /\ percentCandidateGuarded = 0 /\ minFreeCandidate = 0

\* C17: with disk usage available and a budget of 0 CleanBackup returns a
\* nil error and a report without deletions, and it has not scanned, removed
\* a file or directory or called a callback.
C17_ZeroBudgetIsNoOp ==
    ZeroBudgetDone =>
        /\ err = ""
        /\ report = ZeroReport
        /\ cb = <<>>
        /\ present = tree
        /\ DOMAIN timeSlots = {} /\ slots = <<>>
        /\ deleter = NewDeleter /\ deletedDirs = 0

\* the tree holds files that any cutoff of a run would have deleted
C17_Witness ==
    /\ ZeroBudgetDone
    /\ config.MaxUsagePercent.set
    /\ Cardinality(FilesAtStart) >= 2
    /\ \A f \in FilesAtStart : modTime[f] = 7200 /\ f \in present
    /\ report.DeletedFiles = 0 /\ err = ""

\* C18: after the defaults validation fails with ErrNoCapacitySpecified when
\* no constraint is set, with ErrInvalidConfig when a constraint is
\* negative, MaxUsagePercent is above 100, or TimeWindow, Concurrency or
\* MaxConcurrency is negative, and passes every other configuration.
C18_ValidationVerdict ==
    pc \in {"validated", "counted"} =>
        LET none == ~config.MaxSize.set /\ ~config.MaxUsagePercent.set
                    /\ ~config.MinFreeSpace.set
            bad == \/ config.MaxSize.set /\ config.MaxSize.v < 0
                   \/ config.MaxUsagePercent.set /\ config.MaxUsagePercent.v < 0
                   \/ config.MaxUsagePercent.set /\ config.MaxUsagePercent.v > 100
                   \/ config.MinFreeSpace.set /\ config.MinFreeSpace.v < 0
                   \/ config.TimeWindow < 0
                   \/ config.Concurrency < 0
                   \/ config.MaxConcurrency < 0
        IN /\ none => err = "ErrNoCapacitySpecified"
           /\ (~none /\ bad) => err = "ErrInvalidConfig"
           /\ (~none /\ ~bad) => err = ""

\* a configuration whose only fault is a negative MaxConcurrency
C18_Witness ==
    /\ pc \in {"validated", "counted"}
    /\ config.MaxSize = Some(4) /\ config.MaxUsagePercent = Some(100)
    /\ config.MinFreeSpace = Some(0)
    /\ config.TimeWindow = DefaultTimeWindow /\ config.Concurrency = NumCPU
    /\ config.MaxConcurrency < 0
    /\ err = "ErrInvalidConfig"

\* the fatal failures before the scan, from the inputs of the invocation
InvalidConfiguration == validate(config) # ""
RootMissing == validate(config) = "" /\ Root \notin tree
UsageFailureFatal ==
    /\ validate(config) = "" /\ Root \in tree
    /\ ~provider.usage.ok /\ ~config.MaxSize.set
BlockSizeFailure ==
    /\ validate(config) = "" /\ Root \in tree
    /\ \/ ~provider.usage.ok /\ config.MaxSize.set
       \/ /\ provider.usage.ok
          /\ MaxOf({maxSizeCandidate, percentCandidateGuarded,
                    minFreeCandidate}) > 0
    /\ ~provider.bsOk

\* C19: an invalid configuration, a missing root (ErrDirectoryNotFound), a
\* GetDiskUsage failure with MaxSize unset and a GetBlockSize failure each
\* make CleanBackup return a zero report and an error, with no callback
\* called and nothing removed.
C19_FatalBeforeAnyEffect ==
    (pc = "done" /\ (InvalidConfiguration \/ RootMissing \/ UsageFailureFatal
                      \/ BlockSizeFailure)) =>
        /\ err # ""
        /\ report = ZeroReport
        /\ cb = <<>>
        /\ present = tree
        /\ DOMAIN timeSlots = {}
        /\ InvalidConfiguration => err = validate(config)
        /\ RootMissing => err = "ErrDirectoryNotFound"
        /\ UsageFailureFatal => err = "DiskUsageError"
        /\ BlockSizeFailure => err = "BlockSizeError"

\* GetBlockSize fails over a tree with files to delete
C19_Witness ==
    /\ pc = "done"
    /\ BlockSizeFailure
    /\ Cardinality(FilesAtStart) >= 2
    /\ err = "BlockSizeError" /\ cb = <<>> /\ present = tree

\* C20: when RemoveEmptyDirs is false no directory is ever removed,
\* OnDirDeleted is never called and the report's DeletedDirs is 0, even if
\* the deletions leave directories empty.
C20_NoReapingWhenDisabled ==
    ~config.RemoveEmptyDirs =>
        /\ Dirs \cap tree \subseteq present
        /\ At("OnDirDeleted") = {}
        /\ deletedDirs = 0
        /\ report.DeletedDirs = 0

\* a complete run that emptied a directory and left it in place
C20_Witness ==
    /\ pc = "done" /\ HasEvent("OnComplete")
    /\ ~config.RemoveEmptyDirs
    /\ \E d \in deleter.dirs : d \in present /\ Entries(present, d) = <<>>

C22_LeastMultipleAtLeastN ==
    pc = "blocked" =>
        /\ call.u <= 0 => call.r = call.n
        /\ (call.u > 0 /\ call.n >= 0) =>
              /\ call.r % call.u = 0
              /\ call.r >= call.n
              /\ call.r - call.n < call.u
              /\ call.n = 0 => call.r = 0
        /\ call.rr = call.r

\* scan or deleteFiles has returned
WalkReturned ==
    /\ pc \in {"scanned", "deleted"}
    /\ taskWg = 0 /\ taskChan = <<>> /\ closer = "closed"
    /\ \A w \in Workers : workers[w].pc = "exit"

\* C23: for every tree, worker count >= 1 and number of visitor errors a
\* walk terminates: the outstanding counter reaches zero, the queue is
\* closed, all workers exit and the phase returns; a worker at the select
\* never waits for room in the queue.
C23_WalkTerminates == <>WalkReturned

\* a walk of one worker, who must take the queue-full branch, that met an
\* error and returned
C23_Witness ==
    /\ WalkReturned
    /\ workerCount = 1 /\ tree = MixedTree
    /\ firstErr # ""
    /\ visits["/p/r/l"] = 1

\* the workers that hold a task: received, taskWg.Done() not yet called
Processing == {w \in Workers : workers[w].pc \in {"run", "senderr", "done"}}

\* C24: the outstanding counter is never below the number of tasks queued
\* plus tasks being processed, so it is zero only when the queue is empty and
\* no worker holds a task; the queue is closed only then and stays closed,
\* and no path is enqueued after it has been closed.
C24_CounterCoversOutstandingTasks ==
    /\ [](/\ taskWg >= Len(taskChan) + Cardinality(Processing)
          /\ taskWg = 0 => (taskChan = <<>> /\ Processing = {})
          /\ closer \in {"woken", "closed"} =>
                (taskWg = 0 /\ taskChan = <<>> /\ Processing = {}))
    /\ [][/\ (closer # "closed" /\ closer' = "closed") =>
                (closer = "woken" /\ taskWg = 0 /\ taskChan = <<>>
                 /\ Processing = {})
          /\ closer = "closed" =>
                (closer' = "closed" /\ taskChan' = <<>> /\ taskWg' = 0)]_vars

\* two workers, every path of the tree visited, the queue closed and the
\* phase about to return
C24_Witness ==
    /\ pc \in {"scan", "delete"}
    /\ closer = "closed" /\ taskWg = 0 /\ taskChan = <<>>
    /\ workerCount = 2
    /\ \A p \in tree \ {"/p"} : visits[p] = 1

\* the places <<slot time, index>> of the histogram that hold a file
Places ==
    UNION {{<<t, i>> : i \in 1 .. Len(timeSlots[t].files)} : t \in DOMAIN timeSlots}
FileAt(x) == timeSlots[x[1]].files[x[2]]
\* how many places carry the path f
Recorded(f) == Cardinality({x \in Places : FileAt(x).path = f})
RecordedPaths == {FileAt(x).path : x \in Places}

\* the proper ancestors of a path up to the root
RECURSIVE Ancestors(_)
Ancestors(p) == IF p \in {Root, "/p"} THEN {} ELSE {Dir(p)} \cup Ancestors(Dir(p))

\* the paths whose visit ends in an error in this phase
Failing ==
    faults.lstat \cup faults.readDir
        \cup (IF pc = "deleted"
              THEN {f \in faults.remove : Before(modTime[f], threshold)}
              ELSE {})

\* C25: in every interleaving of the workers, with or without the
\* queue-full branch, no path is in the histogram twice and only regular
\* files of the tree are in it; when the scan has returned every regular
\* file that can be reached from the root (its own Lstat and the visits of
\* the directories above it succeed) is in it exactly once; so without an
\* error getTotalFiles is the number of regular files under the root.
C25_EveryFileCountedOnce ==
    /\ \A f \in Paths : Recorded(f) <= 1
    /\ RecordedPaths \subseteq FilesAtStart
    /\ pc = "scanned" =>
          /\ \A f \in FilesAtStart :
                (f \notin Failing /\ Ancestors(f) \cap Failing = {})
                    => Recorded(f) = 1
          /\ err = "" => getTotalFiles = Cardinality(FilesAtStart)

\* C26: a visitor error on one path does not abort peer work: when the walk
\* has returned every path that is not a descendant of a failing path has
\* been visited, the later siblings of a failing path among them, also when
\* the failing path was processed in the queue-full branch.
C26_ErrorDoesNotAbortPeers ==
    (pc \in {"scanned", "deleted"} /\ external = {}) =>
        \A p \in tree \ {"/p"} :
            Ancestors(p) \cap Failing = {} => visits[p] >= 1

\* C27: a path that another process removes at any moment of the delete
\* phase, also between the deleter's Lstat of a file and its Remove, makes
\* no difference: the not-found is swallowed, OnError is not called for it
\* and CleanBackup does not return it.
C27_NotFoundSwallowed ==
    /\ \A i \in DOMAIN cb : cb[i].ev = "OnError" => cb[i].error # "ENOENT"
    /\ firstErr # "ENOENT"
    /\ pc = "deleted" => err # "ENOENT"

\* the files os.Remove removed for the deleter
RemovedByDeleter == {f \in FilesAtStart : f \notin present /\ f \notin external}

RECURSIVE SizeSumOf(_)
SizeSumOf(S) ==
    IF S = {} THEN 0
    ELSE LET f == CHOOSE x \in S : TRUE
         IN size[f] + SizeSumOf(S \ {f})

\* C28: in every interleaving of the delete workers, once deleteFiles has
\* returned deletedFiles is the number of files removed and of OnFileDeleted
\* calls, deletedSize and deletedBlocks are the sums of their logical and
\* block-aligned sizes, and the deleted-directory set is exactly the set of
\* their parent directories.
C28_CountersMatchRemovals ==
    pc = "deleted" =>
        /\ deleter.files = Cardinality(RemovedByDeleter)
        /\ Cardinality(At("OnFileDeleted")) = Cardinality(RemovedByDeleter)
        /\ {cb[i].path : i \in At("OnFileDeleted")} = RemovedByDeleter
        /\ deleter.size = SizeSumOf(RemovedByDeleter)
        /\ deleter.blocks = BlockSumOf(RemovedByDeleter)
        /\ deleter.dirs = {Dir(f) : f \in RemovedByDeleter}

\* two workers removed two files of different sizes in two directories
C28_Witness ==
    /\ pc = "deleted"
    /\ workerCount = 2
    /\ RemovedByDeleter = {"/p/r/f1", "/p/r/a/f2"}
    /\ deleter.files = 2 /\ deleter.size = 4 /\ deleter.blocks = 6
    /\ deleter.dirs = {"/p/r", "/p/r/a"}

\* sums over the files of a slot
RECURSIVE slotSize(_, _), slotBlocks(_, _)
slotSize(fs, i) == IF i > Len(fs) THEN 0 ELSE fs[i].size + slotSize(fs, i + 1)
slotBlocks(fs, i) ==
    IF i > Len(fs) THEN 0 ELSE fs[i].blockSize + slotBlocks(fs, i + 1)

\* C29: at every point of a scan with concurrent addFile calls each
\* recorded file is in exactly one slot, the slot's time is the file's
\* modification time rounded down to a multiple of TimeWindow, and the
\* slot's totalSize and totalBlockSize are the sums of the logical and
\* block-aligned sizes of its files.
C29_SlotsHoldTheirFiles ==
    /\ \A x, y \in Places : FileAt(x).path = FileAt(y).path => x = y
    /\ \A t \in DOMAIN timeSlots :
          LET slot == timeSlots[t]
          IN /\ slot.time = t
             /\ slot.files # <<>>
             /\ t % config.TimeWindow = 0
             /\ \A i \in 1 .. Len(slot.files) :
                   /\ slot.files[i].modTime = modTime[slot.files[i].path]
                   /\ slot.files[i].size = size[slot.files[i].path]
                   /\ slot.files[i].blockSize
                         = calculateBlockSize(slot.files[i].size, blockSize)
                   /\ t <= slot.files[i].modTime
                   /\ slot.files[i].modTime < t + config.TimeWindow
             /\ slot.totalSize = slotSize(slot.files, 1)
             /\ slot.totalBlockSize = slotBlocks(slot.files, 1)

\* two workers in the middle of a scan, two files in one slot
C29_Witness ==
    /\ pc = "scan" /\ workerCount = 2
    /\ \E w \in Workers : workers[w].pc = "run"
    /\ \E t \in DOMAIN timeSlots :
          /\ Len(timeSlots[t].files) = 2
          /\ timeSlots[t].totalSize = 4 /\ timeSlots[t].totalBlockSize = 6
          /\ timeSlots[t].files[1].modTime # timeSlots[t].files[2].modTime

\* C30: getTimeSlots returns every slot of the histogram exactly once,
\* ordered by slot time strictly ascending: oldest first, and no two
\* returned slots have the same time.
C30_SlotsOnceAscending ==
    pc = "sorted" =>
        /\ Len(slots) = Cardinality(DOMAIN timeSlots)
        /\ \A t \in DOMAIN timeSlots :
              Cardinality({i \in 1 .. Len(slots) : slots[i] = timeSlots[t]}) = 1
        /\ \A i, j \in 1 .. Len(slots) :
              i < j => slots[i].time < slots[j].time

\* getTimeSlots has returned a histogram of four slots of two files each
C30_Witness ==
    /\ pc = "sorted"
    /\ Len(slots) = 4
    /\ slots[1].time = 0 /\ slots[4].time = 21600
    /\ Len(slots[2].files) = 2

\* the errors OnError has been called with, in the order of the calls
ErrorsDelivered ==
    LET es == SelectSeq(cb, LAMBDA e : e.ev = "OnError")
    IN [i \in 1 .. Len(es) |-> es[i].error]

\* the errors sent so far: those delivered, then those still in the channel
ErrorsSent == ErrorsDelivered \o errChan

\* C31: every error a worker sends to the error channel of a phase is
\* delivered to OnError exactly once before the phase returns: a send adds
\* the worker's error to the channel, whose capacity is the worker count,
\* no other step adds, drops or repeats an error, the channel is empty when
\* the phase returns, no worker waits at the send for ever, and the error
\* the phase returns is the first one the collector received.
C31_ErrorsDeliveredOnce ==
    /\ [][\A w \in Workers :
             IF workers[w].pc = "senderr" /\ workers'[w].pc # "senderr"
             THEN ErrorsSent' = Append(ErrorsSent, workers[w].err)
             ELSE (\A v \in Workers :
                      ~(workers[v].pc = "senderr" /\ workers'[v].pc # "senderr"))
                  => ErrorsSent' = ErrorsSent]_vars
    /\ [](/\ Len(errChan) <= workerCount
          /\ \A i \in DOMAIN cb :
                cb[i].ev = "OnError" => (cb[i].type \in {"scan", "delete"}
                                         /\ cb[i].error # "")
          /\ firstErr = IF ErrorsDelivered = <<>> THEN ""
                        ELSE ErrorsDelivered[1]
          /\ pc \in {"scanned", "deleted"} =>
                /\ errChan = <<>>
                /\ \A w \in Workers : workers[w].pc = "exit"
                /\ err = firstErr)
    /\ <>[](\A w \in Workers : workers[w].pc # "senderr")

\* a delete phase has returned after two different errors were delivered;
\* it returned the first
C31_Witness ==
    /\ pc = "deleted"
    /\ Len(ErrorsDelivered) = 2
    /\ ErrorsDelivered[1] # ErrorsDelivered[2]
    /\ err = ErrorsDelivered[1]

\* every worker of the pool has left its loop
AllExited == \A w \in Workers : workers[w].pc = "exit"

\* the events a step adds to the callback log
Emitted(ev) ==
    \E i \in DOMAIN cb' : i > Len(cb) /\ cb'[i].ev = ev

\* C32: worker pools never overlap: all scan workers have exited before
\* OnScanComplete is emitted and before the delete pool is started, all
\* delete workers have exited before the reaper inspects or removes its
\* first directory, and the reaper runs on a single thread: between two
\* phases and during the reaping no worker is alive, and a reaping step
\* handles one directory of the set.
C32_PoolsNeverOverlap ==
    /\ [](pc \in {"scanned", "deleted", "reap", "done"} => AllExited)
    /\ [][/\ (Emitted("OnScanComplete") \/ Emitted("OnDeleteStart")) =>
                (pc = "scanned" /\ AllExited)
          /\ (pc # "delete" /\ pc' = "delete") =>
                /\ pc = "scanned" /\ AllExited
                /\ \A w \in Workers : workers'[w] = Idle
          /\ pc' = "reap" => (AllExited /\ workers' = workers)
          /\ (pc = "reap" /\ pc' = "reap") =>
                \E dir \in reapLeft : reapLeft' = reapLeft \ {dir}
          /\ (Emitted("OnDirDeleted") \/ Emitted("OnComplete")) =>
                (pc = "reap" /\ AllExited)]_vars

\* two scan workers and then two delete workers have run and exited, a file
\* was deleted and the reaper has removed a directory
C32_Witness ==
    /\ pc = "reap"
    /\ workerCount = 2 /\ AllExited
    /\ deleter.files > 0
    /\ deletedDirs > 0
    /\ \E i \in DOMAIN cb : cb[i].ev = "OnScanComplete"

C34_ReaperFailureReportedAndSurvived ==
    /\ [][(pc = "reap" /\ Emitted("OnError")) =>
             LET e == cb'[Len(cb')]
             IN /\ e.type = "dir"
                /\ e.path \in present'
                /\ ReadDir(present', e.path) # "" \/ Remove(present', e.path) # ""
                /\ pc' = "reap"
                /\ reapLeft' = reapLeft \ {e.path}]_vars
    /\ []((pc = "done" /\ ErrorsOfType("dir") # {}) =>
             /\ err = ""
             /\ reapLeft = {}
             /\ HasEvent("OnComplete")
             /\ report = [DeletedFiles |-> deleter.files,
                          DeletedSize |-> deleter.size,
                          DeletedBlockSize |-> deleter.blocks,
                          DeletedDirs |-> deletedDirs,
                          ScannedFiles |-> getTotalFiles,
                          TimeThreshold |-> threshold,
                          BlockSize |-> blockSize])

\* C35: the reaper never removes the root directory passed to CleanBackup
\* nor a directory outside the root's subtree, even when the deletions leave
\* the root and then its ancestors empty: whatever is gone from the file
\* system lay strictly below the root.
C35_ReaperStaysBelowRoot ==
    /\ \A d \in tree \ present : Root \in Ancestors(d)
    /\ \A i \in DOMAIN cb :
          cb[i].ev = "OnDirDeleted" => Root \in Ancestors(cb[i].path)

\* C36: whenever OnStart has been emitted and CleanBackup returns a nil
\* error, OnScanComplete, OnDeleteStart and OnComplete have been emitted
\* before it returns, also when the scan finds no regular file.
C36_StartedRunCompletes ==
    (pc = "done" /\ err = "" /\ HasEvent("OnStart")) =>
        /\ HasEvent("OnScanComplete")
        /\ HasEvent("OnDeleteStart")
        /\ cb[Len(cb)].ev = "OnComplete"

\* C37: on an unmodified tree with no errors, in the budget and in the
\* absolute-size variant and for every TimeWindow of at least 1 second, the
\* report's DeletedFiles never exceeds the EstimatedFiles passed to
\* OnDeleteStart and DeletedBlockSize never exceeds EstimatedSize.
C37_DeletedWithinEstimate ==
    ((BudgetRunDone \/ AbsoluteRunDone) /\ config.TimeWindow >= Second) =>
        /\ report.DeletedFiles <= estimate.files
        /\ report.DeletedBlockSize <= estimate.size

\* the regular files a sequential depth-first walk from path meets, in the
\* order it meets them; dfsEntries is its loop over the entries es from i on
RECURSIVE dfsFiles(_), dfsEntries(_, _)
dfsFiles(path) ==
    IF path \in Links THEN <<>>
    ELSE IF path \in Dirs THEN dfsEntries(Entries(tree, path), 1)
    ELSE <<path>>

dfsEntries(es, i) ==
    IF i > Len(es) THEN <<>> ELSE dfsFiles(es[i]) \o dfsEntries(es, i + 1)

\* the histogram of the files fs[i], fs[i + 1], ... added one by one to ts
RECURSIVE dfsHistogram(_, _, _)
dfsHistogram(fs, i, ts) ==
    IF i > Len(fs) THEN ts
    ELSE dfsHistogram(fs, i + 1,
             addFile(ts, [path |-> fs[i], size |-> size[fs[i]],
                          blockSize |-> calculateBlockSize(size[fs[i]], blockSize),
                          modTime |-> modTime[fs[i]]]))

\* the reaper over the directories of S, deepest first, on st = [fs, count, cb]
RECURSIVE dfsReap(_, _)
dfsReap(st, S) ==
    IF S = {} THEN st
    ELSE LET d == CHOOSE x \in S :
                     \A y \in S : Cardinality(Ancestors(x)) >= Cardinality(Ancestors(y))
         IN dfsReap(deleteEmptyDirRecursive(st, d).st, S \ {d})

\* what one goroutine walking depth-first computes from the inputs
SequentialRun ==
    LET files == dfsFiles(Root)
        hist == dfsHistogram(files, 1, NoSlots)
        o == CHOOSE x \in SlotOrders(hist) : TRUE
        th == solve(sortTimeSlots([i \in DOMAIN o |-> hist[o[i]]]))
        deleted == {f \in FilesAtStart : Before(modTime[f], th.threshold)}
        reaped == dfsReap([fs |-> tree \ deleted, count |-> 0, cb |-> <<>>],
                          IF config.RemoveEmptyDirs
                          THEN {Dir(f) : f \in deleted} ELSE {})
    IN IF files = <<>>
       THEN [present |-> tree, deleted |-> {}, report |-> ZeroReport]
       ELSE [present |-> reaped.fs,
             deleted |-> deleted,
             report |-> [DeletedFiles |-> Cardinality(deleted),
                        DeletedSize |-> SizeSumOf(deleted),
                        DeletedBlockSize |-> BlockSumOf(deleted),
                        DeletedDirs |-> reaped.count,
                        ScannedFiles |-> Len(files),
                        TimeThreshold |-> th.threshold,
                        BlockSize |-> blockSize]]

\* CleanBackup has returned nil, no entry failed and nobody else touched
\* the tree
CleanRunDone ==
    pc = "done" /\ err = "" /\ NoEntryError /\ external = {}

\* C38: for a fixed tree, configuration and provider answers with no
\* errors, the deleted files, the removed directories and the counts of the
\* report are the same for every worker count >= 1, every interleaving of
\* the workers and every iteration order of the deleted-directory set: they
\* are those of a sequential depth-first walk.
C38_SameAsSequentialWalk ==
    CleanRunDone =>
        /\ present = SequentialRun.present
        /\ {cb[i].path : i \in At("OnFileDeleted")} = SequentialRun.deleted
        /\ {cb[i].path : i \in At("OnDirDeleted")}
              = (Dirs \cap tree) \ SequentialRun.present
        /\ report = SequentialRun.report

\* two workers have deleted two files in the order opposite to the
\* depth-first one and the reaper has removed directories
C38_Witness ==
    /\ CleanRunDone
    /\ workerCount = 2
    /\ report.DeletedFiles = 2 /\ report.DeletedDirs >= 3
    /\ \E i, j \in At("OnFileDeleted") :
          i < j /\ cb[i].path = "/p/r/f1" /\ cb[j].path = "/p/r/a/b/c/f3"

\* C39: the reaper removes a directory only if it is in the
\* deleted-directory set or is the parent of a directory it has just removed
\* in the same ascent, and it removes it only when empty; a directory that
\* was empty before the run and never held a deleted file is left in place.
C39_ReaperRemovesOnlyFromSet ==
    /\ [][pc = "reap" =>
             \A d \in present \ present' :
                 /\ d \in Dirs
                 /\ \A e \in present' : Dir(e) # d
                 /\ \/ d \in deleter.dirs
                    \/ \E c \in present \ present' : Dir(c) = d]_vars
    /\ [](\A d \in Dirs \cap tree : Entries(tree, d) = <<>> => d \in present)

\* the reaper has visited a directory that holds a subdirectory empty from
\* the start: the file beside it is deleted, the subdirectory is in place
C39_Witness ==
    /\ ReaperDone
    /\ "/p/r/a" \in deleter.dirs
    /\ Removed("/p/r/a/f2")
    /\ Entries(tree, "/p/r/a/b") = <<>>
    /\ "/p/r/a/b" \in present

=============================================================================
